---------------------------- MODULE Spec2Model ----------------------------
(***************************************************************************)
(* Model of the notes-embedding endpoint POST /api/add-notes               *)
(* (src/src/app/api/add-notes/route.ts) and of its notes synthesizer       *)
(* createNotesXml.                                                         *)
(*                                                                         *)
(* A package is a map from part path to part text.  An XML part is a       *)
(* sequence of tokens (one token per element, plus the closing tag of the  *)
(* root element), so that String.includes is a search over the tokens and  *)
(* String.replace(closingTag, entry + closingTag) is an insertion before   *)
(* the first closing-tag token.  Narration text is a sequence of character *)
(* codes.                                                                  *)
(*                                                                         *)
(* Also modelled: the speech endpoint POST /api/generate-tts in its two    *)
(* versions (src/src/app/api/generate-tts/route.ts, src/unnamed/part_002)  *)
(* and the audio-generation run of src/src/components/AudioGenerator.tsx.  *)
(***************************************************************************)
EXTENDS Integers, Sequences, FiniteSets, TLC

VARIABLES
    request,         \* the multipart form of the request being handled
    pc,              \* position of the handler
    slides,          \* const slides = JSON.parse(slidesData)
    pptx,            \* the decoded archive: path -> text (pptx.files)
    presentationXml, \* let presentationXml
    i,               \* loop index of the two stepwise loops
    written,         \* paths passed to pptx.file(...) by this request
    response,        \* what the handler returned
    pass,            \* 1: first patch, 2: patch of the first patch's output
    first,           \* the package returned by the first patch
    narration,       \* input of the synthesizer (specification SpecEscape)
    escaped,         \* its escaped text body     (specification SpecEscape)
    minted,          \* slides for which identifiers were minted (SpecBands)
    rootIds,         \* numbers of the root identifiers minted   (SpecBands)
    perSlideIds,     \* numbers of the per-slide identifiers     (SpecBands)
    variant,         \* the speech endpoint in service: "route", "part_001"
                     \* (one call, one catch) or "part_002" (two attempts)
    apiKey,          \* process.env.GEMINI_API_KEY is set
    useMicrosoftTTS, \* the component's engine switch
    genSlides,       \* the component's slides
    genPc,           \* position of generateAllAudio
    genI,            \* its loop index i
    newAudioFiles,   \* slide numbers of the audio files made by this run
    genError,        \* the component's error (setError)
    calls,           \* per slide position: calls of the TTS collaborator
    currentStep,     \* the wizard step: "settings" | "generate" | "download"
    isGenerating,    \* the component's isGenerating
    currentSlide,    \* the component's currentSlide
    audioFiles,      \* the component's audioFiles (slide numbers)
    trace,           \* history: collaborator calls, their ends, the pauses
    other,           \* a second patch request in flight: its local state
    parked,          \* a second generateAllAudio run in flight: its local state
    docSlides,       \* PowerPointProcessor: slides
    generatedScript, \* PowerPointProcessor: generatedScript, as its sections
    stage,           \* PowerPointProcessor: status.stage
    uploadedScript,  \* PowerPointProcessor: uploadedScript
    fileUpload,      \* handleFileUpload in flight, with what its closure saw
    scriptUpload,    \* handleScriptUpload in flight, with what its closure saw
    regenerations,   \* per slide: regenerateScript in flight and its closure
    ttsRequest,      \* JSON body of the speech request being handled
    ttsPc,           \* position of the speech endpoint
    outcomes,        \* what the upstream calls of this request gave
    ttsResponse      \* what the speech endpoint returned

patchVars == <<request, pc, slides, pptx, presentationXml, i, written, response,
               pass, first, narration, escaped>>

bandVars == <<minted, rootIds, perSlideIds>>

endpointVars == <<ttsRequest, ttsPc, outcomes, ttsResponse>>

componentVars == <<genPc, genI, newAudioFiles, genError, calls, currentStep,
                   isGenerating, currentSlide, audioFiles, trace>>

settings == <<variant, apiKey, useMicrosoftTTS, genSlides>>

ttsVars == <<settings, componentVars, endpointVars>>

processorVars == <<docSlides, generatedScript, stage, uploadedScript,
                   fileUpload, scriptUpload, regenerations>>

restVars == <<other, parked, processorVars>>

vars == <<request, pc, slides, pptx, presentationXml, i, written, response,
          pass, first, narration, escaped, bandVars, ttsVars, restVars>>

-----------------------------------------------------------------------------
(* Bounds of the model *)

MaxSlides == 3

MaxOwnNotes == 1

MaxRootRels == 1

MaxLen == 4

MaxMint == 1000

MaxRun == 3

-----------------------------------------------------------------------------
(* Program constants *)

RootBand == 1000

SlideBand == 100

Amp == 38

Lt == 60

Gt == 62

Quot == 34

Apos == 39

-----------------------------------------------------------------------------
(* Sequence helpers *)

Range(s) == {s[j] : j \in 1..Len(s)}

Min(a, b) == IF a <= b THEN a ELSE b

RECURSIVE Concat(_)
Concat(ss) == IF ss = <<>> THEN <<>> ELSE Head(ss) \o Concat(Tail(ss))

-----------------------------------------------------------------------------
(* createNotesXml: the escaping chain of lines 177-183, on character codes *)

AmpEntity == <<38, 97, 109, 112, 59>>

LtEntity == <<38, 108, 116, 59>>

GtEntity == <<38, 103, 116, 59>>

QuotEntity == <<38, 113, 117, 111, 116, 59>>

AposEntity == <<38, 97, 112, 111, 115, 59>>

\* s.replace(/c/g, rep) for a one-character pattern c
RECURSIVE ReplaceAll(_, _, _)
ReplaceAll(s, c, rep) ==
    IF s = <<>> THEN <<>>
    ELSE (IF Head(s) = c THEN rep ELSE <<Head(s)>>) \o ReplaceAll(Tail(s), c, rep)

\* the character class [\x00-\x08\x0B\x0C\x0E-\x1F\x7F]
IsControl(c) == \/ c \in 0..8
                \/ c \in {11, 12}
                \/ c \in 14..31
                \/ c = 127

\* s.replace(/[\x00-\x08\x0B\x0C\x0E-\x1F\x7F]/g, '')
RECURSIVE StripControl(_)
StripControl(s) ==
    IF s = <<>> THEN <<>>
    ELSE (IF IsControl(Head(s)) THEN <<>> ELSE <<Head(s)>>) \o StripControl(Tail(s))

escapedScript_AmpLast(scriptText) ==
    StripControl(
      ReplaceAll(
        ReplaceAll(
          ReplaceAll(
            ReplaceAll(
              ReplaceAll(scriptText, Lt, LtEntity),
              Gt, GtEntity),
            Quot, QuotEntity),
          Apos, AposEntity),
        Amp, AmpEntity))

escapedScript_NoApos(scriptText) ==
    StripControl(
      ReplaceAll(
        ReplaceAll(
          ReplaceAll(
            ReplaceAll(scriptText, Amp, AmpEntity),
            Lt, LtEntity),
          Gt, GtEntity),
        Quot, QuotEntity))

escapedScript(scriptText) ==
    StripControl(
      ReplaceAll(
        ReplaceAll(
          ReplaceAll(
            ReplaceAll(
              ReplaceAll(scriptText, Amp, AmpEntity),
              Lt, LtEntity),
            Gt, GtEntity),
          Quot, QuotEntity),
        Apos, AposEntity))

\* The notes part: the fixed XML shape with its three holes.
createNotesXml(scriptText, slideNumber) ==
    [tag              |-> "p:notes",
     imagePlaceholder |-> slideNumber,
     notesPlaceholder |-> slideNumber,
     body             |-> escapedScript(scriptText)]

-----------------------------------------------------------------------------
(* Package parts and the tokens of their XML text *)

Path(kind, n) == [kind |-> kind, n |-> n]

PresentationPath == Path("ppt/presentation.xml", 0)

ContentTypesPath == Path("[Content_Types].xml", 0)

RootRelsPath == Path("ppt/_rels/presentation.xml.rels", 0)

\* `ppt/notesSlides/notesSlide${slideNumber}.xml`
notesFileName(slideNumber) == Path("ppt/notesSlides/notesSlide.xml", slideNumber)

\* `ppt/slides/_rels/slide${slideNumber}.xml.rels`
slideRelsPath(slideNumber) == Path("ppt/slides/_rels/slide.xml.rels", slideNumber)

SlidePartPath(k) == Path("ppt/slides/slide.xml", k)

NotesMime == "application/vnd.openxmlformats-officedocument.presentationml.notesSlide+xml"

SlideMime == "application/vnd.openxmlformats-officedocument.presentationml.slide+xml"

NotesRelType == "http://schemas.openxmlformats.org/officeDocument/2006/relationships/notesSlide"

LayoutRelType == "http://schemas.openxmlformats.org/officeDocument/2006/relationships/slideLayout"

SlideRelType == "http://schemas.openxmlformats.org/officeDocument/2006/relationships/slide"

\* <Override PartName=... ContentType=.../>
Override(partName, contentType) ==
    [tag |-> "Override", partName |-> partName, contentType |-> contentType]

TypesClose == [tag |-> "</Types>"]

\* A relationship target: prefix ("" or "../"), part name, ordinal.
Target(prefix, part, n) == [prefix |-> prefix, part |-> part, n |-> n]

\* <Relationship Id="rId<id>" Type=... Target=.../>
Relationship(id, type, target) ==
    [tag |-> "Relationship", id |-> id, type |-> type, target |-> target]

RelationshipsClose == [tag |-> "</Relationships>"]

\* <p:sldId id=... r:id="rId<rid>" [notes="rId<n>"]*/>
SldId(id, rid, notes) == [tag |-> "p:sldId", id |-> id, rid |-> rid, notes |-> notes]

\* pptx.file(path, content)
ZipFile(files, path, content) ==
    [q \in DOMAIN files \cup {path} |-> IF q = path THEN content ELSE files[q]]

NoFiles == [q \in {} |-> <<>>]

InsertBefore_Overwrite(text, closing, entry) == <<entry, closing>>

\* text.replace(closing, entry + closing): only the first occurrence of the
\* closing tag is replaced, and a text without it is returned as it is.
InsertBefore(text, closing, entry) ==
    IF \E j \in 1..Len(text) : text[j] = closing
    THEN LET j == CHOOSE j \in 1..Len(text) :
                     /\ text[j] = closing
                     /\ \A h \in 1..(j - 1) : text[h] # closing
         IN SubSeq(text, 1, j - 1) \o <<entry>> \o SubSeq(text, j, Len(text))
    ELSE text

\* contentTypes.includes('application/...notesSlide+xml')
IncludesNotesMime(contentTypes) ==
    \E j \in 1..Len(contentTypes) :
        /\ contentTypes[j].tag \in {"Override", "Default"}
        /\ contentTypes[j].contentType = NotesMime

\* text.includes(`<prefix>notesSlides/notesSlide${slideNumber}.xml`): the needle
\* without a prefix is also found in a target that carries one.
IncludesNotesTarget(text, prefix, slideNumber) ==
    \E j \in 1..Len(text) :
        /\ text[j].tag = "Relationship"
        /\ text[j].target.part = "notesSlides/notesSlide.xml"
        /\ text[j].target.n = slideNumber
        /\ (prefix = "" \/ text[j].target.prefix = prefix)

-----------------------------------------------------------------------------
(* The steps of POST as functions of the text they rewrite *)

\* A narration script as it arrives in the slide record: a string or undefined.
Script(text) == [defined |-> TRUE, text |-> text]

Undefined == [defined |-> FALSE, text |-> <<>>]

ScriptOrEmpty_Raw(script) == script

\* slide.script || ''
ScriptOrEmpty(script) ==
    IF script.defined /\ script.text # <<>> THEN script ELSE Script(<<>>)

slideNumberOf_Field(slide, index) == slide.slideNumber

\* const slideNumber = i + 1
slideNumberOf(slide, index) == index + 1

\* slideIdPattern.test(presentationXml)
slideIdPattern(xml, slideNumber) ==
    \E j \in 1..Len(xml) :
        /\ xml[j].tag = "p:sldId"
        /\ xml[j].rid = slideNumber + 1

\* notesRelPattern.test(presentationXml): an r:id="rId<1000 + slideNumber>"
notesRelPattern(xml, slideNumber) ==
    \E j \in 1..Len(xml) :
        /\ xml[j].tag = "p:sldId"
        /\ xml[j].rid = RootBand + slideNumber

\* lines 47-58: the first entry the pattern matches gets a notes attribute
withNotesAttribute(xml, slideNumber) ==
    IF /\ slideIdPattern(xml, slideNumber)
       /\ ~notesRelPattern(xml, slideNumber)
    THEN LET j == CHOOSE j \in 1..Len(xml) :
                     /\ xml[j].tag = "p:sldId"
                     /\ xml[j].rid = slideNumber + 1
                     /\ \A h \in 1..(j - 1) :
                            ~(/\ xml[h].tag = "p:sldId"
                              /\ xml[h].rid = slideNumber + 1)
         IN [xml EXCEPT
                ![j].notes = Append(@, RootBand + slideNumber)]
    ELSE xml

NotesOverride(slideNumber) ==
    Override(notesFileName(slideNumber), NotesMime)

\* lines 77-82: for (let i = 2; i <= slides.length; i++)
RECURSIVE overridesFrom(_, _, _)
overridesFrom(contentTypes, k, n) ==
    IF k > n THEN contentTypes
    ELSE overridesFrom(InsertBefore(contentTypes, TypesClose, NotesOverride(k)),
                       k + 1, n)

contentTypesWithOverrides_FirstOnly(contentTypes, n) ==
    InsertBefore(contentTypes, TypesClose, NotesOverride(1))

\* lines 71-82: the override of notesSlide1, then those of 2..slides.length
contentTypesWithOverrides(contentTypes, n) ==
    overridesFrom(InsertBefore(contentTypes, TypesClose, NotesOverride(1)), 2, n)

relId_SlideBand(slideNumber) == SlideBand + slideNumber

\* `rId${1000 + slideNumber}`
relId(slideNumber) == RootBand + slideNumber

\* `rId${100 + slideNumber}`
notesRelId(slideNumber) == SlideBand + slideNumber

rootRelsLacksNotes_Always(rels, slideNumber) == TRUE

\* !rels.includes(`notesSlides/notesSlide${slideNumber}.xml`)
rootRelsLacksNotes(rels, slideNumber) ==
    ~IncludesNotesTarget(rels, "", slideNumber)

\* lines 95-105: for (let i = 0; i < slides.length; i++)
RECURSIVE relsFrom(_, _, _)
relsFrom(rels, k, n) ==
    IF k >= n THEN rels
    ELSE LET slideNumber == k + 1
         IN relsFrom(
              IF rootRelsLacksNotes(rels, slideNumber)
              THEN InsertBefore(rels, RelationshipsClose,
                       Relationship(relId(slideNumber), NotesRelType,
                           Target("", "notesSlides/notesSlide.xml", slideNumber)))
              ELSE rels,
              k + 1, n)

LayoutRelationship ==
    Relationship(1, LayoutRelType, Target("../", "slideLayouts/slideLayout.xml", 1))

fabricatedSlideRels_Empty == <<RelationshipsClose>>

\* lines 124-127: the basic slide relationships file
fabricatedSlideRels == <<LayoutRelationship, RelationshipsClose>>

\* !slideRels.includes(`../notesSlides/notesSlide${slideNumber}.xml`)
slideRelsLacksNotes(slideRels, slideNumber) ==
    ~IncludesNotesTarget(slideRels, "../", slideNumber)

\* lines 133-136
slideRelsWithNotes(slideRels, slideNumber) ==
    InsertBefore(slideRels, RelationshipsClose,
        Relationship(notesRelId(slideNumber), NotesRelType,
            Target("../", "notesSlides/notesSlide.xml", slideNumber)))

-----------------------------------------------------------------------------
(* Requests: the uploaded package and the slide list *)

ScriptSet == {Undefined, Script(<<>>), Script(<<72, 38>>)}

\* A slide record as the client sends it: slideNumber and script (title and
\* content are only logged).
Slide(slideNumber, script) == [slideNumber |-> slideNumber, script |-> script]

\* Lists whose slideNumber fields are the positions, with every choice of
\* scripts.
NumberedLists ==
    UNION {{[k \in 1..n |-> Slide(k, scripts[k])] : scripts \in [1..n -> ScriptSet]} :
           n \in 0..MaxSlides}

\* Lists whose slideNumber fields are not the positions: all 1, or counting
\* down; the script of the slide at position k is the digit k.
RenumberedLists ==
    {[k \in 1..n |-> Slide(IF down THEN n + 1 - k ELSE 1, Script(<<48 + k>>))] :
        n \in 2..MaxSlides, down \in BOOLEAN}

SlideLists == NumberedLists \cup RenumberedLists

RootRelCounts == 0..MaxRootRels

\* A deck of d slides as the presentation program writes it; the first `own`
\* slides already carry notes of their own.
OriginalPackage(hasPresentation, hasContentTypes, hasRootRels, m, d, own) ==
    LET paths ==
            (IF hasPresentation THEN {PresentationPath} ELSE {})
            \cup (IF hasContentTypes THEN {ContentTypesPath} ELSE {})
            \cup (IF hasRootRels THEN {RootRelsPath} ELSE {})
            \cup {SlidePartPath(k) : k \in 1..d}
            \cup {slideRelsPath(k) : k \in 1..d}
            \cup {notesFileName(k) : k \in 1..own}
    IN [q \in paths |->
          CASE q = PresentationPath ->
                 [k \in 1..d |-> SldId(255 + k, k + 1, <<>>)]
            [] q = ContentTypesPath ->
                 [k \in 1..d |-> Override(SlidePartPath(k), SlideMime)]
                 \o [k \in 1..own |-> NotesOverride(k)]
                 \o <<TypesClose>>
            [] q = RootRelsPath ->
                 [j \in 1..m |->
                    Relationship(j, SlideRelType, Target("", "slides/slide.xml", j))]
                 \o <<RelationshipsClose>>
            [] q \in {SlidePartPath(k) : k \in 1..d} ->
                 <<[tag |-> "p:sld"]>>
            [] q \in {slideRelsPath(k) : k \in 1..d} ->
                 <<LayoutRelationship>>
                 \o (IF q.n <= own
                     THEN <<Relationship(2, NotesRelType,
                               Target("../", "notesSlides/notesSlide.xml", q.n))>>
                     ELSE <<>>)
                 \o <<RelationshipsClose>>
            [] OTHER ->
                 [tag |-> "p:notes", imagePlaceholder |-> q.n,
                  notesPlaceholder |-> q.n, body |-> <<97>>]]

Decks == {c \in (0..MaxSlides) \X (0..MaxOwnNotes) : c[2] <= c[1]}

\* A deck whose root relationship file uses rId1 .. rId1001.
LargePackage == OriginalPackage(TRUE, TRUE, TRUE, RootBand + 1, MaxSlides, 0)

Packages ==
    {OriginalPackage(hp, hc, hr, m, c[1], c[2]) :
        hp \in BOOLEAN, hc \in BOOLEAN, hr \in BOOLEAN, m \in RootRelCounts,
        c \in Decks}
    \cup {LargePackage}

\* formData: file, whether the archive decodes, slides (the JSON text and,
\* when it parses, its value)
Request(hasFile, zipOk, file, hasSlides, jsonOk, value) ==
    [hasFile |-> hasFile, zipOk |-> zipOk, file |-> file,
     hasSlides |-> hasSlides, jsonOk |-> jsonOk, slides |-> value]

Requests ==
    {Request(TRUE, TRUE, f, TRUE, TRUE, sl) : f \in Packages, sl \in SlideLists}
    \cup {Request(FALSE, TRUE, NoFiles, TRUE, TRUE, <<>>),
          Request(TRUE, TRUE, NoFiles, FALSE, TRUE, <<>>),
          Request(TRUE, TRUE, NoFiles, TRUE, FALSE, <<>>),
          Request(TRUE, FALSE, NoFiles, TRUE, TRUE, <<>>)}

-----------------------------------------------------------------------------
(* Responses *)

NoResponse ==
    [kind |-> "none", status |-> 0, error |-> "", details |-> "", files |-> NoFiles]

JsonResponse(status, error, details) ==
    [kind |-> "json", status |-> status, error |-> error, details |-> details,
     files |-> NoFiles]

PackageResponse(files) ==
    [kind |-> "package", status |-> 200, error |-> "", details |-> "",
     files |-> files]

MissingPresentation == "Invalid PowerPoint file: missing presentation.xml"

Pending == [tag |-> "pending"]

Catch_ReturnPartial(message) ==
    /\ response' = PackageResponse(pptx)
    /\ pc' = "done"

\* catch (error): status 500 with the error's message
Catch(message) ==
    /\ response' = JsonResponse(500, "Fout bij het toevoegen van notities", message)
    /\ pc' = "done"

-----------------------------------------------------------------------------
(* The handler POST, one action per block of its body *)

ReadForm_NoValidation ==
    /\ pc = "start"
    /\ IF ~request.jsonOk
       THEN /\ Catch("Unexpected token in JSON")
            /\ UNCHANGED slides
       ELSE /\ slides' = request.slides
            /\ pc' = "load"
            /\ UNCHANGED response
    /\ UNCHANGED <<request, pptx, presentationXml, i, written, pass, first,
                   narration, escaped, bandVars, ttsVars, restVars>>

NoTtsResponse ==
    [status |-> 0, success |-> FALSE, error |-> "", details |-> <<>>,
     suggestion |-> "", fallbackSuggestion |-> "", helpUrl |-> ""]

NoError == [slide |-> 0, message |-> ""]

TtsIdle ==
    /\ variant = "route"
    /\ apiKey = TRUE
    /\ useMicrosoftTTS = FALSE
    /\ genSlides = <<>>
    /\ genPc = "off"
    /\ genI = 0
    /\ newAudioFiles = <<>>
    /\ genError = NoError
    /\ calls = <<>>
    /\ currentStep = "settings"
    /\ isGenerating = FALSE
    /\ currentSlide = 0
    /\ audioFiles = <<>>
    /\ trace = <<>>
    /\ ttsRequest = [jsonOk |-> TRUE, text |-> Undefined]
    /\ ttsPc = "idle"
    /\ outcomes = <<>>
    /\ ttsResponse = NoTtsResponse

NoHandler ==
    [request |-> Request(FALSE, TRUE, NoFiles, FALSE, TRUE, <<>>), pc |-> "idle",
     slides |-> <<>>, pptx |-> NoFiles, presentationXml |-> <<>>, i |-> 0,
     written |-> {}, response |-> NoResponse]

NoRun ==
    [genPc |-> "idle", genI |-> 0, newAudioFiles |-> <<>>, calls |-> <<>>,
     trace |-> <<>>]

NoUpload == [pc |-> "idle"]

ProcessorIdle ==
    /\ docSlides = <<>>
    /\ generatedScript = <<>>
    /\ stage = "idle"
    /\ uploadedScript = <<>>
    /\ fileUpload = NoUpload
    /\ scriptUpload = NoUpload
    /\ regenerations = <<>>

RestIdle ==
    /\ other = NoHandler
    /\ parked = NoRun
    /\ ProcessorIdle

NothingMinted ==
    /\ minted = 0
    /\ rootIds = {}
    /\ perSlideIds = {}

\* lines 6-14: read the form, reject a missing field, parse the slide list
ReadForm ==
    /\ pc = "start"
    /\ IF ~request.hasFile \/ ~request.hasSlides
       THEN /\ response' = JsonResponse(400, "Bestand en slides data zijn vereist", "")
            /\ pc' = "done"
            /\ UNCHANGED slides
       ELSE IF ~request.jsonOk
       THEN /\ Catch("Unexpected token in JSON")
            /\ UNCHANGED slides
       ELSE /\ slides' = request.slides
            /\ pc' = "load"
            /\ UNCHANGED response
    /\ UNCHANGED <<request, pptx, presentationXml, i, written, pass, first,
                   narration, escaped, bandVars, ttsVars, restVars>>

LoadZip_NoCheck ==
    /\ pc = "load"
    /\ IF ~request.zipOk
       THEN /\ Catch("Can't find end of central directory")
            /\ UNCHANGED <<pptx, presentationXml>>
       ELSE /\ pptx' = request.file
            /\ presentationXml' = IF PresentationPath \in DOMAIN request.file
                                  THEN request.file[PresentationPath]
                                  ELSE <<>>
            /\ pc' = "notes"
            /\ UNCHANGED response
    /\ i' = 0
    /\ UNCHANGED <<request, slides, written, pass, first, narration, escaped, bandVars, ttsVars, restVars>>

loadAsync_SharedInstance(file) ==
    [q \in DOMAIN other.pptx \cup DOMAIN file |->
        IF q \in DOMAIN file THEN file[q] ELSE other.pptx[q]]

\* lines 17-19: new JSZip() and zip.loadAsync(arrayBuffer): an archive of
\* this invocation alone
loadAsync(file) == file

\* lines 17-29: decode the archive, require and read ppt/presentation.xml
LoadZip ==
    /\ pc = "load"
    /\ IF ~request.zipOk
       THEN /\ Catch("Can't find end of central directory")
            /\ UNCHANGED <<pptx, presentationXml>>
       ELSE /\ pptx' = loadAsync(request.file)
            /\ IF PresentationPath \notin DOMAIN loadAsync(request.file)
               THEN /\ Catch(MissingPresentation)
                    /\ UNCHANGED presentationXml
               ELSE /\ presentationXml' = loadAsync(request.file)[PresentationPath]
                    /\ pc' = "notes"
                    /\ UNCHANGED response
    /\ i' = 0
    /\ UNCHANGED <<request, slides, written, pass, first, narration, escaped, bandVars, ttsVars, restVars>>

\* lines 33-59, one iteration: write the notes part of slide i + 1 and
\* cross-reference it in the presentation text
NotesStep ==
    /\ pc = "notes"
    /\ i < Len(slides)
    /\ LET slide == slides[i + 1]
           slideNumber == slideNumberOf(slide, i)
           scriptText == ScriptOrEmpty(slide.script)
       IN IF ~scriptText.defined
          THEN /\ Catch("Cannot read properties of undefined (reading 'replace')")
               /\ UNCHANGED <<pptx, written, presentationXml, i>>
          ELSE /\ pptx' = ZipFile(pptx, notesFileName(slideNumber),
                                  createNotesXml(scriptText.text, slideNumber))
               /\ written' = written \cup {notesFileName(slideNumber)}
               /\ presentationXml' = withNotesAttribute(presentationXml, slideNumber)
               /\ i' = i + 1
               /\ UNCHANGED <<pc, response>>
    /\ UNCHANGED <<request, slides, pass, first, narration, escaped, bandVars, ttsVars, restVars>>

\* line 62: after the loop, write the presentation text back
WritePresentation ==
    /\ pc = "notes"
    /\ i = Len(slides)
    /\ pptx' = ZipFile(pptx, PresentationPath, presentationXml)
    /\ written' = written \cup {PresentationPath}
    /\ pc' = "contentTypes"
    /\ UNCHANGED <<request, slides, presentationXml, i, response, pass, first,
                   narration, escaped, bandVars, ttsVars, restVars>>

\* lines 64-87: register the notes-slide content type
UpdateContentTypes ==
    /\ pc = "contentTypes"
    /\ IF /\ ContentTypesPath \in DOMAIN pptx
          /\ ~IncludesNotesMime(pptx[ContentTypesPath])
       THEN /\ pptx' = ZipFile(pptx, ContentTypesPath,
                           contentTypesWithOverrides(pptx[ContentTypesPath],
                                                     Len(slides)))
            /\ written' = written \cup {ContentTypesPath}
       ELSE UNCHANGED <<pptx, written>>
    /\ pc' = "rels"
    /\ UNCHANGED <<request, slides, presentationXml, i, response, pass, first,
                   narration, escaped, bandVars, ttsVars, restVars>>

\* lines 89-109: register the notes slides in the root relationship file
UpdateRootRels ==
    /\ pc = "rels"
    /\ IF RootRelsPath \in DOMAIN pptx
       THEN /\ pptx' = ZipFile(pptx, RootRelsPath,
                           relsFrom(pptx[RootRelsPath], 0, Len(slides)))
            /\ written' = written \cup {RootRelsPath}
       ELSE UNCHANGED <<pptx, written>>
    /\ pc' = "slideRels"
    /\ i' = 0
    /\ UNCHANGED <<request, slides, presentationXml, response, pass, first,
                   narration, escaped, bandVars, ttsVars, restVars>>

\* lines 112-140, one iteration: the relationship file of slide i + 1
SlideRelsStep ==
    /\ pc = "slideRels"
    /\ i < Len(slides)
    /\ LET slideNumber == i + 1
           slideRels == IF slideRelsPath(slideNumber) \in DOMAIN pptx
                        THEN pptx[slideRelsPath(slideNumber)]
                        ELSE fabricatedSlideRels
       IN IF slideRelsLacksNotes(slideRels, slideNumber)
          THEN /\ pptx' = ZipFile(pptx, slideRelsPath(slideNumber),
                              slideRelsWithNotes(slideRels, slideNumber))
               /\ written' = written \cup {slideRelsPath(slideNumber)}
          ELSE UNCHANGED <<pptx, written>>
    /\ i' = i + 1
    /\ UNCHANGED <<request, pc, slides, presentationXml, response, pass, first,
                   narration, escaped, bandVars, ttsVars, restVars>>

\* lines 142-161: re-encode the archive and return it; a failing re-encode
\* reaches the catch block
Generate ==
    /\ pc = "slideRels"
    /\ i = Len(slides)
    /\ \/ /\ response' = PackageResponse(pptx)
          /\ pc' = "done"
       \/ Catch("Array buffer allocation failed")
    /\ UNCHANGED <<request, slides, pptx, presentationXml, i, written, pass,
                   first, narration, escaped, bandVars, ttsVars, restVars>>

\* The returned package is uploaded again with the same slide list.
Repatch ==
    /\ pc = "done"
    /\ pass = 1
    /\ response.kind = "package"
    /\ request' = [request EXCEPT !.file = response.files]
    /\ first' = response.files
    /\ pass' = 2
    /\ pc' = "start"
    /\ slides' = <<>>
    /\ pptx' = NoFiles
    /\ presentationXml' = <<>>
    /\ i' = 0
    /\ written' = {}
    /\ response' = NoResponse
    /\ UNCHANGED <<narration, escaped, bandVars, ttsVars, restVars>>

Init ==
    /\ request \in Requests
    /\ pc = "start"
    /\ slides = <<>>
    /\ pptx = NoFiles
    /\ presentationXml = <<>>
    /\ i = 0
    /\ written = {}
    /\ response = NoResponse
    /\ pass = 1
    /\ first = NoFiles
    /\ narration = <<>>
    /\ escaped = Pending
    /\ NothingMinted
    /\ RestIdle
    /\ TtsIdle

Next ==
    \/ ReadForm
    \/ LoadZip
    \/ NotesStep
    \/ WritePresentation
    \/ UpdateContentTypes
    \/ UpdateRootRels
    \/ SlideRelsStep
    \/ Generate
    \/ Repatch

Spec == Init /\ [][Next]_vars

-----------------------------------------------------------------------------
(* The synthesizer on its own: every narration over a small alphabet *)

\* & < > " ' ; l t, the controls 0x08 and 0x7F, and the tab 0x09
EscAlphabet == {Amp, Lt, Gt, Quot, Apos, 59, 108, 116, 8, 9, 127}

Narrations == UNION {[1..n -> EscAlphabet] : n \in 0..MaxLen}

\* createNotesXml(scriptText, slideNumber) applied to the drawn narration
Synthesize ==
    /\ pc = "idle"
    /\ escaped = Pending
    /\ escaped' = createNotesXml(narration, 1)
    /\ UNCHANGED <<request, pc, slides, pptx, presentationXml, i, written,
                   response, pass, first, narration, bandVars, ttsVars, restVars>>

InitEscape ==
    /\ request = Request(FALSE, TRUE, NoFiles, FALSE, TRUE, <<>>)
    /\ pc = "idle"
    /\ slides = <<>>
    /\ pptx = NoFiles
    /\ presentationXml = <<>>
    /\ i = 0
    /\ written = {}
    /\ response = NoResponse
    /\ pass = 1
    /\ first = NoFiles
    /\ narration \in Narrations
    /\ escaped = Pending
    /\ NothingMinted
    /\ RestIdle
    /\ TtsIdle

NextEscape == Synthesize

SpecEscape == InitEscape /\ [][NextEscape]_vars

-----------------------------------------------------------------------------
(* Two patch requests in flight.  All state of the handler is local to an  *)
(* invocation (route.ts has no module-level variable), so the second       *)
(* invocation is its own copy of the handler's variables; Switch gives the *)
(* processor to the other invocation, between any two steps.               *)

MaxPair == 2

Local ==
    [request |-> request, pc |-> pc, slides |-> slides, pptx |-> pptx,
     presentationXml |-> presentationXml, i |-> i, written |-> written,
     response |-> response]

Started(r) == [NoHandler EXCEPT !.request = r, !.pc = "start"]

\* an await of the running invocation yields to the other one
Switch ==
    /\ other.pc # "idle"
    /\ pc # "done" \/ other.pc # "done"
    /\ other' = Local
    /\ request' = other.request
    /\ pc' = other.pc
    /\ slides' = other.slides
    /\ pptx' = other.pptx
    /\ presentationXml' = other.presentationXml
    /\ i' = other.i
    /\ written' = other.written
    /\ response' = other.response
    /\ UNCHANGED <<pass, first, narration, escaped, bandVars, ttsVars, parked,
                   processorVars>>

PairPackages ==
    {OriginalPackage(TRUE, TRUE, TRUE, 1, d, 0) : d \in 1..MaxPair}
    \cup {OriginalPackage(FALSE, TRUE, TRUE, 1, 1, 0)}

PairLists ==
    {[k \in 1..n |-> Slide(k, Script(<<c>>))] : n \in 0..MaxPair, c \in {72, 38}}

PairRequests ==
    {Request(TRUE, TRUE, f, TRUE, TRUE, sl) : f \in PairPackages, sl \in PairLists}
    \cup {Request(TRUE, TRUE, NoFiles, FALSE, TRUE, <<>>),
          Request(TRUE, FALSE, NoFiles, TRUE, TRUE, <<>>)}

InitPair ==
    /\ request \in PairRequests
    /\ pc = "start"
    /\ slides = <<>>
    /\ pptx = NoFiles
    /\ presentationXml = <<>>
    /\ i = 0
    /\ written = {}
    /\ response = NoResponse
    /\ pass = 1
    /\ first = NoFiles
    /\ narration = <<>>
    /\ escaped = Pending
    /\ NothingMinted
    /\ TtsIdle
    /\ other \in {Started(r) : r \in PairRequests}
    /\ parked = NoRun
    /\ ProcessorIdle

NextPair ==
    \/ ReadForm
    \/ LoadZip
    \/ NotesStep
    \/ WritePresentation
    \/ UpdateContentTypes
    \/ UpdateRootRels
    \/ SlideRelsStep
    \/ Generate
    \/ Switch

SpecPair == InitPair /\ [][NextPair]_vars

\* The handler as one function of its request: what it returns when nothing
\* else runs.
RECURSIVE notesLoop(_, _, _)
notesLoop(acc, list, k) ==
    IF k > Len(list) THEN acc
    ELSE LET slideNumber == slideNumberOf(list[k], k - 1)
             scriptText == ScriptOrEmpty(list[k].script)
         IN notesLoop([files |-> ZipFile(acc.files, notesFileName(slideNumber),
                                         createNotesXml(scriptText.text, slideNumber)),
                       xml |-> withNotesAttribute(acc.xml, slideNumber)],
                      list, k + 1)

RECURSIVE slideRelsLoop(_, _, _)
slideRelsLoop(files, n, k) ==
    IF k > n THEN files
    ELSE LET slideRels == IF slideRelsPath(k) \in DOMAIN files
                          THEN files[slideRelsPath(k)]
                          ELSE fabricatedSlideRels
         IN slideRelsLoop(IF slideRelsLacksNotes(slideRels, k)
                          THEN ZipFile(files, slideRelsPath(k),
                                       slideRelsWithNotes(slideRels, k))
                          ELSE files,
                          n, k + 1)

PatchedAlone(req) ==
    LET n == Len(req.slides)
        a == notesLoop([files |-> req.file, xml |-> req.file[PresentationPath]],
                       req.slides, 1)
        b == ZipFile(a.files, PresentationPath, a.xml)
        c == IF ContentTypesPath \in DOMAIN b /\ ~IncludesNotesMime(b[ContentTypesPath])
             THEN ZipFile(b, ContentTypesPath,
                          contentTypesWithOverrides(b[ContentTypesPath], n))
             ELSE b
        d == IF RootRelsPath \in DOMAIN c
             THEN ZipFile(c, RootRelsPath, relsFrom(c[RootRelsPath], 0, n))
             ELSE c
    IN slideRelsLoop(d, n, 1)

CatchResponse(message) ==
    JsonResponse(500, "Fout bij het toevoegen van notities", message)

\* What the request gives when it runs alone; the re-encoding of the archive
\* can fail in any run.
AloneResponses(req) ==
    IF ~req.hasFile \/ ~req.hasSlides
    THEN {JsonResponse(400, "Bestand en slides data zijn vereist", "")}
    ELSE IF ~req.jsonOk THEN {CatchResponse("Unexpected token in JSON")}
    ELSE IF ~req.zipOk THEN {CatchResponse("Can't find end of central directory")}
    ELSE IF PresentationPath \notin DOMAIN req.file
    THEN {CatchResponse(MissingPresentation)}
    ELSE {PackageResponse(PatchedAlone(req)),
          CatchResponse("Array buffer allocation failed")}

-----------------------------------------------------------------------------
(* The identifiers the two relationship loops mint, slide after slide *)

HandlerIdle ==
    /\ request = Request(FALSE, TRUE, NoFiles, FALSE, TRUE, <<>>)
    /\ pc = "idle"
    /\ slides = <<>>
    /\ pptx = NoFiles
    /\ presentationXml = <<>>
    /\ i = 0
    /\ written = {}
    /\ response = NoResponse
    /\ pass = 1
    /\ first = NoFiles
    /\ narration = <<>>
    /\ escaped = Pending

\* lines 95-97 and 130-131 for the next slide number: `rId${1000 + slideNumber}`
\* in the root file, `rId${100 + slideNumber}` in the slide's file
MintIds ==
    /\ pc = "idle"
    /\ minted < MaxMint
    /\ minted' = minted + 1
    /\ rootIds' = rootIds \cup {relId(minted + 1)}
    /\ perSlideIds' = perSlideIds \cup {notesRelId(minted + 1)}
    /\ UNCHANGED <<patchVars, ttsVars, restVars>>

InitBands == HandlerIdle /\ NothingMinted /\ TtsIdle /\ RestIdle

NextBands == MintIds

SpecBands == InitBands /\ [][NextBands]_vars

-----------------------------------------------------------------------------
(* The speech endpoint POST /api/generate-tts in its two versions, and the  *)
(* component's generateAllAudio, which calls a TTS collaborator per slide.  *)
(* An error message is a sequence of phrases; String.includes is a search   *)
(* over the phrases, upper and lower case being different phrases.          *)

\* if (text.length > 5000)
TextLimit == 5000

IsSpace(c) == c \in {9, 10, 11, 12, 13, 32}

\* text.trim()
Trim(text) ==
    IF \A j \in 1..Len(text) : IsSpace(text[j])
    THEN <<>>
    ELSE LET head == CHOOSE a \in 1..Len(text) :
                        ~IsSpace(text[a]) /\ \A b \in 1..(a - 1) : IsSpace(text[b])
             last == CHOOSE a \in 1..Len(text) :
                        ~IsSpace(text[a]) /\ \A b \in (a + 1)..Len(text) : IsSpace(text[b])
         IN SubSeq(text, head, last)

\* !text || text.trim().length === 0
MissingText(text) ==
    \/ ~text.defined
    \/ Len(text.text) = 0
    \/ Len(Trim(text.text)) = 0

TooLong_Inclusive(text) == Len(text.text) >= TextLimit

\* text.length > 5000
TooLong(text) == Len(text.text) > TextLimit

Includes(message, phrase) == \E j \in 1..Len(message) : message[j] = phrase

TtsJson(status, error, details, suggestion, fallbackSuggestion, helpUrl) ==
    [status |-> status, success |-> FALSE, error |-> error, details |-> details,
     suggestion |-> suggestion, fallbackSuggestion |-> fallbackSuggestion,
     helpUrl |-> helpUrl]

\* NextResponse.json({ success: true, audioData, ... })
TtsAudio ==
    [status |-> 200, success |-> TRUE, error |-> "", details |-> <<>>,
     suggestion |-> "", fallbackSuggestion |-> "", helpUrl |-> ""]

\* What one model.generateContent call gives: audio at one of the places the
\* two versions look at, a response without audio, or an exception.
Gives(kind) == [kind |-> kind, message |-> <<>>]

Throws(message) == [kind |-> "throw", message |-> message]

UpstreamMessages ==
    {<<"does not support">>, <<"AUDIO">>, <<"modality">>, <<"quota">>,
     <<"billing">>, <<"payment">>, <<"audio">>, <<"fetch failed">>,
     <<"quota", "AUDIO">>, <<"billing", "quota">>, <<>>}

UpstreamOutcomes ==
    {Gives(kind) : kind \in {"inlineData", "inline_data", "fileData", "none"}}
    \cup {Throws(message) : message \in UpstreamMessages}

outerCatch_BillingFirst(message) ==
    IF Includes(message, "billing") \/ Includes(message, "payment")
    THEN TtsJson(402, "Billing probleem. Controleer je Google Cloud billing instellingen.",
                 <<"Er is een probleem met je Google Cloud billing.">>, "", "",
                 "https://console.cloud.google.com/billing")
    ELSE IF Includes(message, "quota")
    THEN TtsJson(429, "API quota overschreden. Controleer je Google Cloud billing en quota instellingen.",
                 <<"Je hebt je Gemini API limiet bereikt.">>, "", "",
                 "https://ai.google.dev/gemini-api/docs/rate-limits")
    ELSE TtsJson(500, "Fout bij TTS generatie", message,
                 "Probeer Microsoft TTS als alternatief in de instellingen", "", "")

\* generate-tts/route.ts lines 130-167: catch (error)
outerCatch(message) ==
    IF Includes(message, "quota")
    THEN TtsJson(429, "API quota overschreden. Controleer je Google Cloud billing en quota instellingen.",
                 <<"Je hebt je Gemini API limiet bereikt.">>, "", "",
                 "https://ai.google.dev/gemini-api/docs/rate-limits")
    ELSE IF Includes(message, "billing") \/ Includes(message, "payment")
    THEN TtsJson(402, "Billing probleem. Controleer je Google Cloud billing instellingen.",
                 <<"Er is een probleem met je Google Cloud billing.">>, "", "",
                 "https://console.cloud.google.com/billing")
    ELSE TtsJson(500, "Fout bij TTS generatie", message,
                 "Probeer Microsoft TTS als alternatief in de instellingen", "", "")

\* generate-tts/route.ts lines 104-128: catch (modelError)
modelCatch(message) ==
    IF \/ Includes(message, "does not support")
       \/ Includes(message, "AUDIO")
       \/ Includes(message, "modality")
    THEN TtsJson(400, "Gemini 2.5 Pro ondersteunt momenteel geen audio generatie. Gebruik Microsoft TTS als alternatief.",
                 <<"Schakel over naar Microsoft TTS in de instellingen.">>, "",
                 "microsoft_tts", "")
    ELSE outerCatch(message)

NoAudioMessage == <<"Geen ", "audio", " data ontvangen van Gemini TTS">>

\* generate-tts/route.ts lines 62-102: the one call and what is made of it
routeResponse(o) ==
    IF o.kind \in {"inlineData", "inline_data"} THEN TtsAudio
    ELSE IF o.kind = "throw" THEN modelCatch(o.message)
    ELSE modelCatch(NoAudioMessage)

\* part_001 lines 83-93: catch (error)
part001Catch(message) == TtsJson(500, "Fout bij TTS generatie", message, "", "", "")

\* part_001 lines 61-81: the one call and what is made of it
part001Response(o) ==
    IF o.kind = "inline_data" THEN TtsAudio
    ELSE IF o.kind = "throw" THEN part001Catch(o.message)
    ELSE part001Catch(NoAudioMessage)

\* part_002 lines 157-190: catch (apiError)
apiCatch(message) ==
    IF Includes(message, "audio")
    THEN TtsJson(400, "Audio generatie niet ondersteund",
                 <<"Gemini 2.5 Flash ondersteunt momenteel geen audio output.">>,
                 "Gebruik Microsoft TTS voor betrouwbare audio generatie.", "", "")
    ELSE IF Includes(message, "quota")
    THEN TtsJson(429, "API quota overschreden",
                 <<"Je hebt je Gemini API limiet bereikt.">>, "", "", "")
    ELSE TtsJson(500, "Gemini API fout",
                 IF message = <<>> THEN <<"Onbekende API fout">> ELSE message,
                 "Probeer Microsoft TTS als alternatief.", "", "")

NeedsSecondAttempt_OnThrow(o) == o.kind \in {"inline_data", "none", "throw"}

\* part_002 lines 66-101: no audio part found in the first response
NeedsSecondAttempt(o) == o.kind \in {"inline_data", "none"}

\* part_002 lines 56-101: the first attempt
firstAttempt(o) ==
    IF o.kind = "throw" THEN apiCatch(o.message) ELSE TtsAudio

\* part_002 lines 103-155: the second attempt
secondAttempt(o) ==
    IF o.kind = "inlineData" THEN TtsAudio
    ELSE IF o.kind = "throw" THEN apiCatch(o.message)
    ELSE TtsJson(400, "Gemini TTS niet beschikbaar",
                 <<"Gebruik Microsoft TTS als alternatief.">>,
                 "Schakel over naar Microsoft TTS in de instellingen voor betrouwbare audio generatie.",
                 "", "")

\* request.json() threw: the outer catch of the version in service
requestCatch ==
    IF variant = "route"
    THEN outerCatch(<<"Unexpected token">>)
    ELSE IF variant = "part_001"
    THEN part001Catch(<<"Unexpected token">>)
    ELSE TtsJson(500, "Fout bij TTS generatie", <<"Unexpected token">>,
                 "Gebruik Microsoft TTS voor betrouwbare audio generatie.", "", "")

Respond(r) ==
    /\ ttsResponse' = r
    /\ ttsPc' = "responded"

\* lines 8-30 of both versions: the checks before the model is called
Validate ==
    /\ ttsPc = "received"
    /\ IF ~apiKey
       THEN Respond(TtsJson(500, "GEMINI_API_KEY niet geconfigureerd", <<>>, "", "", ""))
       ELSE IF ~ttsRequest.jsonOk
       THEN Respond(requestCatch)
       ELSE IF MissingText(ttsRequest.text)
       THEN Respond(TtsJson(400, "Tekst is vereist voor TTS generatie", <<>>, "", "", ""))
       ELSE IF TooLong(ttsRequest.text)
       THEN Respond(TtsJson(400, "Tekst te lang voor TTS (max 5000 karakters)", <<>>, "", "", ""))
       ELSE /\ ttsPc' = "first"
            /\ UNCHANGED ttsResponse
    /\ UNCHANGED <<ttsRequest, outcomes, componentVars, settings, patchVars, bandVars, restVars>>

\* route.ts line 63, part_002 line 56: await model.generateContent(...)
FirstCall ==
    /\ ttsPc = "first"
    /\ \E o \in UpstreamOutcomes :
           /\ outcomes' = Append(outcomes, o)
           /\ IF variant = "route"
              THEN Respond(routeResponse(o))
              ELSE IF variant = "part_001"
              THEN Respond(part001Response(o))
              ELSE IF NeedsSecondAttempt(o)
              THEN /\ ttsPc' = "second"
                   /\ UNCHANGED ttsResponse
              ELSE Respond(firstAttempt(o))
    /\ UNCHANGED <<ttsRequest, componentVars, settings, patchVars, bandVars, restVars>>

\* part_002 line 119: await model.generateContent(audioRequest)
SecondCall ==
    /\ ttsPc = "second"
    /\ \E o \in UpstreamOutcomes :
           /\ outcomes' = Append(outcomes, o)
           /\ Respond(secondAttempt(o))
    /\ UNCHANGED <<ttsRequest, componentVars, settings, patchVars, bandVars, restVars>>

Filled(n) == [k \in 1..n |-> 97]

DirectBodies ==
    {[jsonOk |-> FALSE, text |-> Undefined]}
    \cup {[jsonOk |-> TRUE, text |-> t] :
             t \in {Undefined, Script(<<>>), Script(<<32, 9>>), Script(<<72, 105>>),
                    Script(Filled(TextLimit)), Script(Filled(TextLimit + 1))}}

\* A caller other than the component posts a body to the endpoint.
DirectPost ==
    /\ genPc = "idle"
    /\ genSlides = <<>>
    /\ ttsPc = "idle"
    /\ \E b \in DirectBodies : ttsRequest' = b
    /\ ttsPc' = "received"
    /\ genPc' = "off"
    /\ UNCHANGED <<outcomes, ttsResponse, genI, newAudioFiles, genError, calls,
                   currentStep, isGenerating, currentSlide, audioFiles, trace,
                   settings, patchVars, bandVars, restVars>>

\* AudioGenerator.tsx lines 178-192: generateAllAudio up to its loop
generateAllAudio ==
    /\ genPc = "idle"
    /\ ttsPc = "idle"
    /\ IF Len(genSlides) = 0
       THEN /\ genError' = [slide |-> 0,
                            message |-> "Geen slides beschikbaar voor audio generatie"]
            /\ genPc' = "done"
            /\ UNCHANGED <<currentStep, isGenerating, currentSlide, audioFiles>>
       ELSE /\ currentStep' = "generate"
            /\ isGenerating' = TRUE
            /\ currentSlide' = 0
            /\ genError' = NoError
            /\ audioFiles' = <<>>
            /\ genPc' = "loop"
    /\ genI' = 0
    /\ newAudioFiles' = <<>>
    /\ UNCHANGED <<calls, trace, endpointVars, settings, patchVars, bandVars, restVars>>

movesToDownload_Always(files) == TRUE

\* line 234: if (newAudioFiles.length > 0)
movesToDownload(files) == Len(files) > 0

Event(e, k) == [e |-> e, k |-> k]

\* lines 194-212 and 232-243: the loop head, the skip of a slide without a
\* script, the call of the collaborator (line 141: the fetch), and the end
\* of the run with its finally block
LoopStep ==
    /\ genPc = "loop"
    /\ IF genI >= Len(genSlides)
       THEN /\ genPc' = "done"
            /\ currentStep' = IF movesToDownload(newAudioFiles)
                              THEN "download" ELSE currentStep
            /\ isGenerating' = FALSE
            /\ currentSlide' = 0
            /\ UNCHANGED <<genI, calls, trace, endpointVars>>
       ELSE LET slide == genSlides[genI + 1]
            IN /\ currentSlide' = genI + 1
               /\ UNCHANGED <<currentStep, isGenerating>>
               /\ IF MissingText(slide.script)
                  THEN /\ genI' = genI + 1
                       /\ UNCHANGED <<genPc, calls, trace, endpointVars>>
                  ELSE /\ calls' = [calls EXCEPT ![genI + 1] = @ + 1]
                       /\ trace' = Append(trace, Event("call", genI + 1))
                       /\ UNCHANGED genI
                       /\ IF useMicrosoftTTS
                          THEN /\ genPc' = "speak"
                               /\ UNCHANGED endpointVars
                          ELSE /\ genPc' = "fetch"
                               /\ ttsRequest' = [jsonOk |-> TRUE, text |-> slide.script]
                               /\ ttsPc' = "received"
                               /\ outcomes' = <<>>
                               /\ ttsResponse' = NoTtsResponse
    /\ UNCHANGED <<newAudioFiles, genError, audioFiles, settings, patchVars, bandVars, restVars>>

resumeAt_Abort(index, failed) == IF failed THEN Len(genSlides) ELSE index

\* lines 217-220: catch (slideError) only records the error; the loop goes
\* on with the same i
resumeAt(index, failed) == index

NeedsPause_Never(index) == FALSE

\* line 227: if (i < slides.length - 1)
NeedsPause(index) == index < Len(genSlides) - 1

\* lines 213-229: the collaborator's promise is settled
Settle(failed, message) ==
    /\ IF failed
       THEN /\ genError' = [slide |-> genSlides[genI + 1].slideNumber,
                            message |-> message]
            /\ UNCHANGED <<newAudioFiles, audioFiles>>
       ELSE /\ newAudioFiles' = Append(newAudioFiles, genSlides[genI + 1].slideNumber)
            /\ audioFiles' = Append(newAudioFiles, genSlides[genI + 1].slideNumber)
            /\ UNCHANGED genError
    /\ trace' = Append(trace, Event(IF failed THEN "rejected" ELSE "resolved", genI + 1))
    /\ LET at == resumeAt(genI, failed)
       IN IF NeedsPause(at)
          THEN genPc' = "pause" /\ genI' = at
          ELSE genPc' = "loop" /\ genI' = at + 1
    /\ UNCHANGED <<calls, currentStep, isGenerating, currentSlide>>

\* lines 73-138: the browser's speech synthesis ends or fails
generateMicrosoftTTS ==
    /\ genPc = "speak"
    /\ \E spoken \in BOOLEAN : Settle(~spoken, "TTS fout")
    /\ UNCHANGED <<endpointVars, settings, patchVars, bandVars, restVars>>

\* lines 140-176: the endpoint's response arrives
generateGeminiTTS ==
    /\ genPc = "fetch"
    /\ ttsPc = "responded"
    /\ Settle(ttsResponse.status \notin 200..299,
              IF ttsResponse.error = "" THEN "TTS generatie mislukt"
              ELSE ttsResponse.error)
    /\ ttsPc' = "idle"
    /\ UNCHANGED <<ttsRequest, outcomes, ttsResponse, settings, patchVars, bandVars, restVars>>

\* lines 226-229: await new Promise(resolve => setTimeout(resolve, 1000))
Pause ==
    /\ genPc = "pause"
    /\ trace' = Append(trace, Event("pause", genI + 1))
    /\ genI' = genI + 1
    /\ genPc' = "loop"
    /\ UNCHANGED <<newAudioFiles, genError, calls, currentStep, isGenerating,
                   currentSlide, audioFiles, endpointVars, settings, patchVars,
                   bandVars, restVars>>

GenScripts == {Undefined, Script(<<32>>), Script(<<72, 105>>)}

GenSlideLists ==
    UNION {{[k \in 1..n |-> Slide(k, scripts[k])] : scripts \in [1..n -> GenScripts]} :
           n \in 0..MaxRun}

InitTts ==
    /\ HandlerIdle
    /\ NothingMinted
    /\ RestIdle
    /\ variant \in {"route", "part_001", "part_002"}
    /\ apiKey \in BOOLEAN
    /\ useMicrosoftTTS \in BOOLEAN
    /\ genSlides \in GenSlideLists
    /\ genPc = "idle"
    /\ genI = 0
    /\ newAudioFiles = <<>>
    /\ genError = NoError
    /\ calls = [k \in 1..Len(genSlides) |-> 0]
    /\ currentStep = "settings"
    /\ isGenerating = FALSE
    /\ currentSlide = 0
    /\ audioFiles = <<>>
    /\ trace = <<>>
    /\ ttsRequest = [jsonOk |-> TRUE, text |-> Undefined]
    /\ ttsPc = "idle"
    /\ outcomes = <<>>
    /\ ttsResponse = NoTtsResponse

NextTts ==
    \/ DirectPost
    \/ Validate
    \/ FirstCall
    \/ SecondCall
    \/ generateAllAudio
    \/ LoopStep
    \/ generateMicrosoftTTS
    \/ generateGeminiTTS
    \/ Pause

SpecTts == InitTts /\ [][NextTts]_vars

\* The steps of a run and of the endpoint it waits for: the loop is one
\* async function, the timer of the pause fires, and every call of a
\* collaborator is settled.
RunStep ==
    \/ LoopStep
    \/ Pause
    \/ generateMicrosoftTTS
    \/ generateGeminiTTS
    \/ Validate
    \/ FirstCall
    \/ SecondCall

SpecTtsRun == SpecTts /\ WF_vars(RunStep)

-----------------------------------------------------------------------------
(* Vocabulary of the properties *)

\* The request passed the checks that precede the patch.
Accepted ==
    /\ request.hasFile
    /\ request.hasSlides
    /\ request.jsonOk
    /\ request.zipOk

Succeeded == pc = "done" /\ response.kind = "package"

IsNotesOverride(tok) == tok.tag = "Override" /\ tok.contentType = NotesMime

TargetsNotes(tok, k) ==
    /\ tok.tag = "Relationship"
    /\ tok.target.part = "notesSlides/notesSlide.xml"
    /\ tok.target.n = k

Positions(text, Test(_)) == {j \in 1..Len(text) : Test(text[j])}

NoDuplicates(text) == Cardinality(Range(text)) = Len(text)

RegistrationParts ==
    {ContentTypesPath, RootRelsPath} \cup {slideRelsPath(k) : k \in 1..MaxSlides}

-----------------------------------------------------------------------------
(* Properties of the patch operation *)

\* C1: patching the output of a first patch with the same slides returns a
\* package whose manifest, root relationship file and per-slide relationship
\* files are the ones the first patch returned: the same parts with the same
\* entries, and no entry twice.
C1_PatchIdempotent ==
    (pass = 2 /\ Succeeded) =>
        \A q \in RegistrationParts :
            /\ q \in DOMAIN response.files <=> q \in DOMAIN first
            /\ q \in DOMAIN first =>
                   /\ response.files[q] = first[q]
                   /\ NoDuplicates(response.files[q])

\* C1 witness: a second patch has succeeded on a package in which the first
\* patch registered the notes of slide 2 in all three kinds of part.
C1_Witness ==
    /\ pass = 2
    /\ Succeeded
    /\ Len(slides) >= 2
    /\ ContentTypesPath \in DOMAIN first
    /\ RootRelsPath \in DOMAIN first
    /\ \E j \in 1..Len(first[ContentTypesPath]) :
           first[ContentTypesPath][j] = NotesOverride(2)
    /\ IncludesNotesTarget(first[RootRelsPath], "", 2)
    /\ IncludesNotesTarget(first[slideRelsPath(2)], "../", 2)

\* C2: a package without ppt/presentation.xml makes the patch fail before
\* any part is written, and the caller gets an error response, never a
\* package.
C2_MissingPresentationIsFatal ==
    (Accepted /\ PresentationPath \notin DOMAIN request.file) =>
        /\ written = {}
        /\ pptx \in {NoFiles, request.file}
        /\ pc \in {"start", "load", "done"}
        /\ pc = "done" =>
               /\ response.kind = "json"
               /\ response.status = 500
               /\ response.details = MissingPresentation

\* C2 witness: the request for a three-slide list on a package without the
\* presentation part has been answered.
C2_Witness ==
    /\ Accepted
    /\ PresentationPath \notin DOMAIN request.file
    /\ ContentTypesPath \in DOMAIN request.file
    /\ Len(slides) = 3
    /\ pc = "done"
    /\ response.status = 500

\* C3: no root relationship the patch adds has the identifier of a
\* relationship the root relationship file already had.
C3_RootIdsDoNotCollide ==
    (Succeeded /\ RootRelsPath \in DOMAIN request.file) =>
        LET before == Range(request.file[RootRelsPath])
            added  == Range(response.files[RootRelsPath]) \ before
        IN \A a \in added : \A b \in before :
               (a.tag = "Relationship" /\ b.tag = "Relationship") => a.id # b.id

\* C4: the manifest is left unchanged when it already holds the notes-slide
\* MIME string; otherwise the patch adds exactly one override per notes part
\* introduced: N overrides for a list of N slides, N >= 0, for the parts
\* notesSlide1 .. notesSlideN, before the closing tag and after the entries
\* the manifest had.
C4_OverridePerIntroducedPart ==
    (Succeeded /\ ContentTypesPath \in DOMAIN request.file) =>
        LET before == request.file[ContentTypesPath]
            after  == response.files[ContentTypesPath]
            n      == Len(slides)
        IN IF IncludesNotesMime(before)
           THEN after = before
           ELSE after = SubSeq(before, 1, Len(before) - 1)
                        \o [k \in 1..n |-> NotesOverride(k)]
                        \o <<TypesClose>>

\* C5 as stated: after patching three slides of a package whose manifest did
\* not declare the notes-slide MIME type, the manifest holds exactly one
\* notes-slide override.
C5_SingleOverride ==
    (/\ Succeeded
     /\ Len(slides) = 3
     /\ ContentTypesPath \in DOMAIN request.file
     /\ ~IncludesNotesMime(request.file[ContentTypesPath])) =>
        Cardinality(Positions(response.files[ContentTypesPath], IsNotesOverride)) = 1

\* C5 as amended: after patching three slides of a package whose manifest
\* did not declare the notes-slide MIME type, the manifest holds exactly
\* three notes-slide overrides, one for each of notesSlide1 .. notesSlide3.
C5_OverridePerSlide ==
    (/\ Succeeded
     /\ Len(slides) = 3
     /\ ContentTypesPath \in DOMAIN request.file
     /\ ~IncludesNotesMime(request.file[ContentTypesPath])) =>
        LET after == response.files[ContentTypesPath]
        IN /\ Cardinality(Positions(after, IsNotesOverride)) = 3
           /\ \A k \in 1..3 :
                  Cardinality({j \in 1..Len(after) : after[j] = NotesOverride(k)}) = 1

\* C5 witness: a first patch of three slides has succeeded on a package whose
\* manifest did not declare the notes-slide MIME type.
C5_Witness ==
    /\ pass = 1
    /\ Succeeded
    /\ Len(slides) = 3
    /\ ContentTypesPath \in DOMAIN request.file
    /\ ~IncludesNotesMime(request.file[ContentTypesPath])
    /\ IncludesNotesMime(response.files[ContentTypesPath])

\* The root relationship file of the returned package holds, for each slide
\* k, exactly one relationship targeting notesSlide<k>; when the file had
\* none of them, exactly N were added, with the identifiers rId(1000 + k).
RootRegistered ==
    /\ RootRelsPath \in DOMAIN response.files
    /\ LET n      == Len(slides)
           after  == response.files[RootRelsPath]
           before == IF RootRelsPath \in DOMAIN request.file
                     THEN request.file[RootRelsPath]
                     ELSE <<RelationshipsClose>>
       IN /\ \A k \in 1..n :
                 Cardinality({j \in 1..Len(after) : TargetsNotes(after[j], k)}) = 1
          /\ (\A k \in 1..n : \A j \in 1..Len(before) : ~TargetsNotes(before[j], k)) =>
                 /\ Len(after) = Len(before) + n
                 /\ \A k \in 1..n : \E j \in 1..Len(after) :
                        /\ TargetsNotes(after[j], k)
                        /\ after[j].id = 1000 + k
                        /\ after[j] \notin Range(before)

\* C6 as stated: RootRegistered after every successful patch.
C6_RootRegistration == Succeeded => RootRegistered

\* C6 as amended: RootRegistered after every successful patch of a package
\* that has a root relationship file.
C6_RootRegistrationOfExistingFile ==
    (Succeeded /\ RootRelsPath \in DOMAIN request.file) => RootRegistered

\* C6 witness: a first patch of three slides has succeeded on a package whose
\* root relationship file had a relationship, none of them to a notes part.
C6_Witness ==
    /\ pass = 1
    /\ Succeeded
    /\ Len(slides) = 3
    /\ RootRelsPath \in DOMAIN request.file
    /\ Len(request.file[RootRelsPath]) = 2
    /\ Len(response.files[RootRelsPath]) = 5

\* C7: a slide of the list whose relationship file is not in the input
\* package does not make the patch fail, and the file is in the package from
\* that slide's step on, with exactly two relationships before its closing
\* tag: the slide-layout relationship and the notes relationship of slide k.
C7_FabricatedSlideRels ==
    \A k \in 1..Len(slides) :
        (Accepted /\ slideRelsPath(k) \notin DOMAIN request.file) =>
            LET fabricated ==
                    <<Relationship(1, LayoutRelType,
                          Target("../", "slideLayouts/slideLayout.xml", 1)),
                      Relationship(100 + k, NotesRelType,
                          Target("../", "notesSlides/notesSlide.xml", k)),
                      RelationshipsClose>>
            IN /\ (pc = "slideRels" /\ i >= k) =>
                      /\ slideRelsPath(k) \in DOMAIN pptx
                      /\ pptx[slideRelsPath(k)] = fabricated
               /\ Succeeded =>
                      /\ slideRelsPath(k) \in DOMAIN response.files
                      /\ response.files[slideRelsPath(k)] = fabricated
               /\ (pc = "done" /\ i >= k /\ response.kind = "json") =>
                      response.details = "Array buffer allocation failed"

\* C7 witness: a patch has succeeded for a list whose slide 2 had no
\* relationship file in the input package, while slide 1 had one.
C7_Witness ==
    /\ Succeeded
    /\ Len(slides) >= 2
    /\ slideRelsPath(1) \in DOMAIN request.file
    /\ slideRelsPath(2) \notin DOMAIN request.file
    /\ Len(response.files[slideRelsPath(2)]) = 3

-----------------------------------------------------------------------------
(* Properties of the synthesizer *)

Entities == {AmpEntity, LtEntity, GtEntity, QuotEntity, AposEntity}

StartsWith(s, prefix) ==
    /\ Len(s) >= Len(prefix)
    /\ SubSeq(s, 1, Len(prefix)) = prefix

\* The characters XML text may not hold: 0x00-0x08, 0x0B, 0x0C, 0x0E-0x1F, 0x7F.
Disallowed(c) == c \in (0..8) \cup {11, 12} \cup (14..31) \cup {127}

\* What an XML reader makes of a text body: each entity reference becomes
\* its character, every other character is kept.
RECURSIVE Unescape(_)
Unescape(s) ==
    IF s = <<>> THEN <<>>
    ELSE IF StartsWith(s, AmpEntity)
         THEN <<38>> \o Unescape(SubSeq(s, Len(AmpEntity) + 1, Len(s)))
    ELSE IF StartsWith(s, LtEntity)
         THEN <<60>> \o Unescape(SubSeq(s, Len(LtEntity) + 1, Len(s)))
    ELSE IF StartsWith(s, GtEntity)
         THEN <<62>> \o Unescape(SubSeq(s, Len(GtEntity) + 1, Len(s)))
    ELSE IF StartsWith(s, QuotEntity)
         THEN <<34>> \o Unescape(SubSeq(s, Len(QuotEntity) + 1, Len(s)))
    ELSE IF StartsWith(s, AposEntity)
         THEN <<39>> \o Unescape(SubSeq(s, Len(AposEntity) + 1, Len(s)))
    ELSE <<Head(s)>> \o Unescape(Tail(s))

Allowed(c) == ~Disallowed(c)

\* One character of narration as it must appear in the body.
EntityOf(c) ==
    CASE c = 38 -> AmpEntity
      [] c = 60 -> LtEntity
      [] c = 62 -> GtEntity
      [] c = 34 -> QuotEntity
      [] c = 39 -> AposEntity
      [] OTHER  -> IF Disallowed(c) THEN <<>> ELSE <<c>>

\* C8: un-escaping the text body createNotesXml produced gives the narration
\* with its disallowed control characters removed and nothing else changed.
C8_EscapingRoundTrip ==
    escaped.tag = "p:notes" =>
        Unescape(escaped.body) = SelectSeq(narration, Allowed)

\* C8 witness: a body has been produced for a narration that holds an
\* ampersand, a less-than sign and a control character.
C8_Witness ==
    /\ escaped.tag = "p:notes"
    /\ {38, 60, 8} \subseteq Range(narration)
    /\ Len(Unescape(escaped.body)) = Len(narration) - 1

\* C9: the body holds no raw < > " ' and no disallowed control character,
\* every & in it starts one of the five entities, and it is the narration
\* translated character by character, each character once (a < is &lt;,
\* never &amp;lt;).
C9_EscapedBodySafe ==
    escaped.tag = "p:notes" =>
        LET body == escaped.body
        IN /\ \A j \in 1..Len(body) :
                  /\ body[j] \notin {60, 62, 34, 39}
                  /\ ~Disallowed(body[j])
                  /\ body[j] = 38 =>
                         \E e \in Entities : StartsWith(SubSeq(body, j, Len(body)), e)
           /\ body = Concat([j \in 1..Len(narration) |-> EntityOf(narration[j])])

\* C9 witness: a body has been produced for a narration that holds a
\* less-than sign, an apostrophe and the character 0x7F.
C9_Witness ==
    /\ escaped.tag = "p:notes"
    /\ {60, 39, 127} \subseteq Range(narration)
    /\ Len(escaped.body) = Len(LtEntity) + Len(AposEntity) + Len(narration) - 3

-----------------------------------------------------------------------------
(* Narration in the patch operation *)

NoNarration(slide) == slide.script = Undefined \/ slide.script = Script(<<>>)

\* C10: a slide whose script is missing or empty never makes the patch
\* fail: its notes part is written, with an empty narration body, at that
\* slide's step and is in the returned package, and a request that passed
\* the checks preceding the patch fails only when the archive cannot be
\* re-encoded.
C10_EmptyNarrationIsNoError ==
    /\ \A k \in 1..Len(slides) :
           NoNarration(slides[k]) =>
               /\ ((pc = "notes" /\ i >= k)
                      \/ pc \in {"contentTypes", "rels", "slideRels"}) =>
                      /\ notesFileName(k) \in DOMAIN pptx
                      /\ pptx[notesFileName(k)].tag = "p:notes"
                      /\ pptx[notesFileName(k)].body = <<>>
                      /\ response = NoResponse
               /\ Succeeded =>
                      /\ notesFileName(k) \in DOMAIN response.files
                      /\ response.files[notesFileName(k)].tag = "p:notes"
                      /\ response.files[notesFileName(k)].body = <<>>
    /\ (/\ Accepted
        /\ PresentationPath \in DOMAIN request.file
        /\ pc = "done") =>
           \/ response.kind = "package"
           \/ response.details = "Array buffer allocation failed"

\* C10 witness: a patch has succeeded for a list with a slide whose script is
\* missing, a slide whose script is the empty string and a slide with
\* narration.
C10_Witness ==
    /\ Succeeded
    /\ \E k \in 1..Len(slides) : slides[k].script = Undefined
    /\ \E k \in 1..Len(slides) : slides[k].script = Script(<<>>)
    /\ \E k \in 1..Len(slides) :
           /\ slides[k].script = Script(<<72, 38>>)
           /\ response.files[notesFileName(k)].body = <<72>> \o AmpEntity

-----------------------------------------------------------------------------
(* Notes parts, failures and the package as a whole *)

NotesParts(files) == {q \in DOMAIN files : q.kind = "ppt/notesSlides/notesSlide.xml"}

\* C11: after a successful patch of N slides the package holds the notes
\* part of every k in 1..N, the part at path k holds the narration of the
\* slide at position k of the list, whatever its slideNumber field says, and
\* the N slides wrote N different paths.
C11_NotesPathsByPosition ==
    /\ Succeeded =>
           /\ \A k \in 1..Len(slides) :
                  /\ notesFileName(k) \in DOMAIN response.files
                  /\ response.files[notesFileName(k)].tag = "p:notes"
                  /\ response.files[notesFileName(k)].body =
                         Concat([j \in 1..Len(slides[k].script.text) |->
                                    EntityOf(slides[k].script.text[j])])
           /\ NotesParts(response.files) \ NotesParts(request.file) \subseteq
                  {notesFileName(k) : k \in 1..Len(slides)}
    /\ (pc = "notes" \/ Succeeded) =>
           {q \in written : q.kind = "ppt/notesSlides/notesSlide.xml"} =
               {notesFileName(k) : k \in 1..(IF pc = "notes" THEN i ELSE Len(slides))}

\* C11 witness: a patch has succeeded for a list of three slides whose
\* slideNumber fields count down from 3.
C11_Witness ==
    /\ Succeeded
    /\ Len(slides) = 3
    /\ slides[1].slideNumber = 3
    /\ slides[3].slideNumber = 1
    /\ response.files[notesFileName(1)].body = <<49>>
    /\ response.files[notesFileName(3)].body = <<51>>

\* C12: a request ends with one response; when a step fails (the slide list
\* does not parse, the archive does not decode, the presentation part is
\* missing, the archive cannot be re-encoded) the response is an error that
\* carries no package, and a returned package has every slide of the list
\* patched.
C12_NoPartialSuccess ==
    /\ pc # "done" => response = NoResponse
    /\ pc = "done" =>
           /\ response.kind \in {"json", "package"}
           /\ response.kind = "json" =>
                  /\ response.files = NoFiles
                  /\ response.status \in {400, 500}
                  /\ response.error # ""
           /\ (/\ request.hasFile
               /\ request.hasSlides
               /\ \/ ~request.jsonOk
                  \/ ~request.zipOk
                  \/ PresentationPath \notin DOMAIN request.file) =>
                  /\ response.kind = "json"
                  /\ response.status = 500
           /\ response.kind = "package" =>
                  /\ request.jsonOk /\ request.zipOk
                  /\ \A k \in 1..Len(slides) :
                         /\ notesFileName(k) \in DOMAIN response.files
                         /\ slideRelsPath(k) \in DOMAIN response.files
                         /\ IncludesNotesTarget(response.files[slideRelsPath(k)], "../", k)
                         /\ RootRelsPath \in DOMAIN response.files =>
                                IncludesNotesTarget(response.files[RootRelsPath], "", k)

\* C12 witness: the re-encoding failed after all three slides were patched in
\* memory, and the caller got the error.
C12_Witness ==
    /\ pc = "done"
    /\ Len(slides) = 3
    /\ written # {}
    /\ response.kind = "json"
    /\ response.details = "Array buffer allocation failed"

Added(before, after) == {tok \in Range(after) : tok \notin Range(before)}

TextOf(files, q) == IF q \in DOMAIN files THEN files[q] ELSE <<>>

\* C13: in every returned package, every part named by an override or a
\* relationship the patch added is in the package, and every relationship
\* identifier the patch wrote into presentation.xml as a notes attribute is
\* defined in the root relationship file.
C13_ReferencesResolve ==
    Succeeded =>
        LET out == response.files
            inp == request.file
        IN /\ \A tok \in Added(TextOf(inp, ContentTypesPath), TextOf(out, ContentTypesPath)) :
                  tok.tag = "Override" => tok.partName \in DOMAIN out
           /\ \A tok \in Added(TextOf(inp, RootRelsPath), TextOf(out, RootRelsPath)) :
                  tok.tag = "Relationship" => notesFileName(tok.target.n) \in DOMAIN out
           /\ \A k \in 1..Len(slides) :
                  \A tok \in Added(TextOf(inp, slideRelsPath(k)), TextOf(out, slideRelsPath(k))) :
                      (tok.tag = "Relationship" /\ tok.type = NotesRelType) =>
                          notesFileName(tok.target.n) \in DOMAIN out
           /\ \A j \in 1..Len(out[PresentationPath]) :
                  \A h \in 1..Len(out[PresentationPath][j].notes) :
                      \E r \in 1..Len(TextOf(out, RootRelsPath)) :
                          /\ out[RootRelsPath][r].tag = "Relationship"
                          /\ out[RootRelsPath][r].id = out[PresentationPath][j].notes[h]

IdsUnique(text) ==
    \A a, b \in 1..Len(text) :
        (/\ a # b
         /\ text[a].tag = "Relationship"
         /\ text[b].tag = "Relationship") => text[a].id # text[b].id

\* C14: after the patch no per-slide relationship file and no root
\* relationship file holds two relationships with the same Id.
C14_IdsUniquePerFile ==
    Succeeded =>
        \A q \in {RootRelsPath} \cup {slideRelsPath(k) : k \in 1..MaxSlides} :
            q \in DOMAIN response.files => IdsUnique(response.files[q])

Touched ==
    {PresentationPath, ContentTypesPath, RootRelsPath}
    \cup {slideRelsPath(k) : k \in 1..Len(slides)}
    \cup {notesFileName(k) : k \in 1..Len(slides)}

\* C15: every entry of the input manifest, root relationship file and
\* per-slide relationship files is in the output, unchanged and in its order,
\* and every part other than presentation.xml, the manifest, the root
\* relationship file and the per-slide relationship files and notes parts of
\* the slides 1..N is as it was.
C15_Frame ==
    Succeeded =>
        LET out == response.files
            inp == request.file
        IN /\ \A q \in RegistrationParts :
                  q \in DOMAIN inp =>
                      /\ q \in DOMAIN out
                      /\ LET Old(tok) == tok \in Range(inp[q])
                         IN SelectSeq(out[q], Old) = inp[q]
           /\ DOMAIN out \ Touched = DOMAIN inp \ Touched
           /\ \A q \in DOMAIN inp \ Touched : out[q] = inp[q]

\* C15 witness: a first patch of one slide has succeeded on a deck of three
\* slides that had a manifest, a root relationship and notes of its own.
C15_Witness ==
    /\ pass = 1
    /\ Succeeded
    /\ Len(slides) = 1
    /\ slideRelsPath(3) \in DOMAIN request.file
    /\ ContentTypesPath \in DOMAIN request.file
    /\ RootRelsPath \in DOMAIN request.file
    /\ Len(request.file[RootRelsPath]) = 2
    /\ Len(response.files[RootRelsPath]) = 3
    /\ Len(response.files[slideRelsPath(1)]) = 3

\* C16: a request ends in a package response or in a JSON failure; without
\* a file or without slide data it is rejected with status 400 before the
\* archive is decoded, and any later failure gives status 500 with an error
\* message. Every step of the handler brings it nearer to its response: it
\* moves on to a later phase or to the next slide of a loop.
Phase(p) ==
    CASE p = "idle" -> 0
      [] p = "start" -> 1
      [] p = "load" -> 2
      [] p = "notes" -> 3
      [] p = "contentTypes" -> 4
      [] p = "rels" -> 5
      [] p = "slideRels" -> 6
      [] p = "done" -> 7

Advance ==
    pc # "done" =>
        \/ Phase(pc') > Phase(pc)
        \/ pc' = pc /\ i' = i + 1 /\ i' <= Len(slides)

Outcome ==
    /\ pc = "done" =>
           \/ /\ response.kind = "package"
              /\ response.status = 200
              /\ DOMAIN response.files # {}
           \/ /\ response.kind = "json"
              /\ response.status \in {400, 500}
              /\ response.error # ""
              /\ response.files = NoFiles
    /\ (~request.hasFile \/ ~request.hasSlides) =>
           /\ pc \in {"start", "done", "idle"}
           /\ pptx = NoFiles
           /\ pc = "done" => response.kind = "json" /\ response.status = 400
    /\ (request.hasFile /\ request.hasSlides /\ pc = "done" /\ response.kind = "json") =>
           /\ response.status = 500
           /\ response.error = "Fout bij het toevoegen van notities"
           /\ response.details # ""

C19_OneNotesAttribute ==
    Succeeded =>
        LET out == response.files[PresentationPath]
            inp == request.file[PresentationPath]
        IN /\ Len(out) = Len(inp)
           /\ \A j \in 1..Len(out) :
                  /\ Len(out[j].notes) <= 1
                  /\ out[j].rid \notin {k + 1 : k \in 1..Len(slides)} => out[j] = inp[j]

\* C20: for every slide count N the identifiers minted for per-slide
\* relationships, rId(100+k) for k in 1..N, and those minted for root
\* relationships, rId(1000+k) for k in 1..N, have no value in common.
C20_BandsDisjoint == rootIds \cap perSlideIds = {}

-----------------------------------------------------------------------------
(* The speech endpoint and the audio-generation run *)

\* The endpoint answered a request whose last upstream call failed: it threw
\* or its response had no audio the version in service reads.
SynthesisFailed ==
    /\ ttsPc = "responded"
    /\ Len(outcomes) >= 1
    /\ ttsResponse.status >= 400

\* C17: every failure response of the speech endpoint for a failed synthesis
\* call (model-support, quota, billing or any other upstream error) carries
\* an explicit suggestion to switch to the alternative synthesis provider.
C17_FailureSuggestsFallback ==
    SynthesisFailed =>
        \/ ttsResponse.suggestion # ""
        \/ ttsResponse.fallbackSuggestion # ""

\* C18: one speech request makes at most one upstream call in route.ts and
\* at most two in the two-attempt version, a call that threw is the last
\* call of its request and is answered with an error, and one
\* audio-generation run calls the TTS collaborator at most once per slide.
C18_BoundedUpstreamCalls ==
    /\ Len(outcomes) <= (IF variant = "part_002" THEN 2 ELSE 1)
    /\ \A j \in 1..(Len(outcomes) - 1) : outcomes[j].kind # "throw"
    /\ ttsPc = "first" => Len(outcomes) = 0
    /\ ttsPc = "second" => Len(outcomes) = 1
    /\ (/\ ttsPc = "responded"
        /\ Len(outcomes) >= 1
        /\ outcomes[Len(outcomes)].kind = "throw") =>
           /\ ttsResponse.status >= 400
           /\ ttsResponse.error # ""
    /\ \A k \in 1..Len(calls) : calls[k] <= 1
    /\ genPc = "done" =>
           \A k \in 1..Len(calls) :
               calls[k] = (IF MissingText(genSlides[k].script) THEN 0 ELSE 1)

\* C18 witness: a run over two slides is over; the two-attempt endpoint was
\* called once for each, and the second call for the last slide threw.
C18_Witness ==
    /\ genPc = "done"
    /\ variant = "part_002"
    /\ calls = <<1, 1>>
    /\ Len(outcomes) = 2
    /\ outcomes[2].kind = "throw"
    /\ genError.slide = 2

\* C25: the speech endpoint validates before any upstream call: without an
\* API key it answers 500; with a key, a text that is missing, empty or only
\* whitespace gives 400 and a text of more than 5000 characters gives 400; in
\* none of these cases is the provider called; a text of exactly 5000
\* characters goes on to the provider.
C25_ValidationBeforeUpstream ==
    LET text == ttsRequest.text
        answered == ttsPc = "responded"
        rejected ==
            \/ ~apiKey
            \/ ~ttsRequest.jsonOk
            \/ MissingText(text)
            \/ Len(text.text) > 5000
    IN /\ ttsPc = "received" => outcomes = <<>>
       /\ (ttsPc \in {"first", "second", "responded"} /\ rejected) =>
              /\ answered
              /\ outcomes = <<>>
       /\ (answered /\ ~apiKey) =>
              /\ ttsResponse.status = 500
              /\ ttsResponse.error = "GEMINI_API_KEY niet geconfigureerd"
       /\ (answered /\ apiKey /\ ttsRequest.jsonOk /\ MissingText(text)) =>
              /\ ttsResponse.status = 400
              /\ ttsResponse.error = "Tekst is vereist voor TTS generatie"
       /\ (answered /\ apiKey /\ ttsRequest.jsonOk /\ ~MissingText(text)
             /\ Len(text.text) > 5000) =>
              /\ ttsResponse.status = 400
              /\ ttsResponse.error = "Tekst te lang voor TTS (max 5000 karakters)"
       /\ (answered /\ ~rejected) => Len(outcomes) >= 1

\* C25 witness: a text of exactly 5000 characters was accepted and sent to
\* the provider.
C25_Witness ==
    /\ ttsPc = "responded"
    /\ apiKey
    /\ Len(ttsRequest.text.text) = 5000
    /\ Len(outcomes) = 1

\* C30: generate-tts/route.ts classifies an upstream failure by its message
\* with a fixed precedence: 'does not support', 'AUDIO' or 'modality' gives
\* 400 with fallbackSuggestion 'microsoft_tts'; otherwise 'quota' gives 429;
\* otherwise 'billing' or 'payment' gives 402; every other failure, a
\* response without audio data included, gives 500; a request has exactly
\* one response.
C30_FailurePrecedence ==
    /\ ttsPc \in {"received", "first", "second"} => ttsResponse = NoTtsResponse
    /\ ttsPc = "responded" => ttsResponse.status \in {200, 400, 402, 429, 500}
    /\ (variant = "route" /\ ttsPc = "responded" /\ Len(outcomes) = 1) =>
           LET o == outcomes[1]
               said(phrase) == o.kind = "throw" /\ phrase \in Range(o.message)
               support == said("does not support") \/ said("AUDIO") \/ said("modality")
               quota == said("quota")
               billing == said("billing") \/ said("payment")
               audio == o.kind \in {"inlineData", "inline_data"}
           IN /\ audio => ttsResponse.status = 200
              /\ (~audio /\ support) =>
                     /\ ttsResponse.status = 400
                     /\ ttsResponse.fallbackSuggestion = "microsoft_tts"
              /\ (~audio /\ ~support /\ quota) => ttsResponse.status = 429
              /\ (~audio /\ ~support /\ ~quota /\ billing) => ttsResponse.status = 402
              /\ (~audio /\ ~support /\ ~quota /\ ~billing) => ttsResponse.status = 500

\* C30 witness: the provider failed with a message that names both billing
\* and quota, and the request was answered with 429.
C30_Witness ==
    /\ variant = "route"
    /\ ttsPc = "responded"
    /\ Len(outcomes) = 1
    /\ outcomes[1] = Throws(<<"billing", "quota">>)
    /\ ttsResponse.status = 429

Settled(ev) == ev.e \in {"resolved", "rejected"}

\* C22: within one run the collaborator calls are made one after the other
\* in ascending order of slide position: a call is started only after every
\* earlier call was resolved or rejected, and a pause lies between two
\* consecutive calls.
C22_SequentialCalls ==
    /\ \A a, b \in 1..Len(trace) :
           (a < b /\ trace[a].e = "call" /\ trace[b].e = "call") =>
               /\ trace[a].k < trace[b].k
               /\ \E c \in (a + 1)..(b - 1) :
                      /\ Settled(trace[c])
                      /\ trace[c].k = trace[a].k
                      /\ \E d \in (c + 1)..(b - 1) : trace[d].e = "pause"
    /\ genPc \in {"fetch", "speak"} <=>
           (trace # <<>> /\ trace[Len(trace)].e = "call")

\* C22 witness: the first and the third slide were given to the
\* collaborator, the second has no script.
C22_Witness ==
    /\ genPc = "done"
    /\ Len(genSlides) = 3
    /\ calls = <<1, 0, 1>>
    /\ \E a, b \in 1..Len(trace) :
           /\ trace[a] = Event("call", 1)
           /\ trace[b] = Event("call", 3)

Resolved == SelectSeq(trace, LAMBDA ev : ev.e = "resolved")

Rejected == SelectSeq(trace, LAMBDA ev : ev.e = "rejected")

RunEnded ==
    /\ genPc = "done"
    /\ isGenerating = FALSE
    /\ currentSlide = 0

RunEndsRight ==
    (genPc = "done" /\ Len(genSlides) > 0) =>
        /\ isGenerating = FALSE
        /\ currentSlide = 0
        /\ currentStep = "download" <=> Len(audioFiles) > 0
        /\ currentStep # "download" => currentStep = "generate"

\* C24: every generateAllAudio run started on a non-empty slide list ends
\* with isGenerating = false and currentSlide = 0, whether its slides
\* succeed, fail or are skipped, every collaborator call being settled; it
\* is then at the download step exactly when it made at least one audio file.
C24_RunTerminates ==
    /\ []RunEndsRight
    /\ (genPc = "loop" /\ isGenerating) ~> RunEnded

\* C24 witness: a run of three slides ended without any audio file (one
\* slide failed, one was skipped) and stayed at the generate step.
C24_Witness ==
    /\ RunEnded
    /\ Len(genSlides) = 3
    /\ audioFiles = <<>>
    /\ genError.slide # 0
    /\ \E k \in 1..3 : calls[k] = 0
    /\ currentStep = "generate"

-----------------------------------------------------------------------------
(* The wizard of the audio generator: the user's buttons and the runs of    *)
(* generateAllAudio.  currentStep, isGenerating, currentSlide, audioFiles   *)
(* and error are state of the component, shared by every run; i and         *)
(* newAudioFiles are locals of one run.  A second run has its own copy of   *)
(* the locals, held in parked while the other run has the processor.        *)

RunLocal ==
    [genPc |-> genPc, genI |-> genI, newAudioFiles |-> newAudioFiles,
     calls |-> calls, trace |-> trace]

\* no run: generateAllAudio has not been called, or has returned
IdleRun == [NoRun EXCEPT !.calls = [k \in 1..Len(genSlides) |-> 0]]

InFlight(at) == at \in {"loop", "speak", "pause"}

\* the run that has the processor is at an await (or there is none): the
\* event loop is free for a click or for the other run
Awaiting == genPc \in {"idle", "speak", "pause"}

\* an await of the running run yields: to the other run, or to the user
\* when there is no other run
SwitchRun ==
    /\ Awaiting
    /\ InFlight(genPc) \/ InFlight(parked.genPc)
    /\ parked' = RunLocal
    /\ genPc' = parked.genPc
    /\ genI' = parked.genI
    /\ newAudioFiles' = parked.newAudioFiles
    /\ calls' = parked.calls
    /\ trace' = parked.trace
    /\ UNCHANGED <<genError, currentStep, isGenerating, currentSlide, audioFiles,
                   endpointVars, settings, patchVars, bandVars, other,
                   processorVars>>

\* lines 242-244: the async function returns after its finally block
Return ==
    /\ genPc = "done"
    /\ genPc' = "idle"
    /\ genI' = 0
    /\ newAudioFiles' = <<>>
    /\ calls' = IdleRun.calls
    /\ trace' = <<>>
    /\ UNCHANGED <<genError, currentStep, isGenerating, currentSlide, audioFiles,
                   endpointVars, settings, patchVars, bandVars, restVars>>

\* lines 502 and 608-611, 624 and 682-686: the two buttons that call
\* generateAllAudio, and their disabled attribute
GenerateButton ==
    /\ \/ currentStep = "settings"
       \/ currentStep = "generate" /\ ~isGenerating /\ audioFiles = <<>>
    /\ \E k \in 1..Len(genSlides) : ~MissingText(genSlides[k].script)

\* a click on one of the two buttons
PressGenerate ==
    /\ Awaiting
    /\ GenerateButton
    /\ generateAllAudio

\* lines 398-401 and 624, 646-654: the back button of the generate step
goBackToSettings ==
    /\ Awaiting
    /\ currentStep = "generate"
    /\ currentStep' = "settings"
    /\ genError' = NoError
    /\ UNCHANGED <<genPc, genI, newAudioFiles, calls, trace, isGenerating,
                   currentSlide, audioFiles, endpointVars, settings, patchVars,
                   bandVars, restVars>>

\* line 701: the download step is rendered only with audio files
DownloadStep == currentStep = "download" /\ Len(audioFiles) > 0

\* lines 403-406 and 772: the back button of the download step
goBackToGenerate ==
    /\ Awaiting
    /\ DownloadStep
    /\ currentStep' = "generate"
    /\ genError' = NoError
    /\ UNCHANGED <<genPc, genI, newAudioFiles, calls, trace, isGenerating,
                   currentSlide, audioFiles, endpointVars, settings, patchVars,
                   bandVars, restVars>>

\* lines 379-396 and 779
clearAllAudio ==
    /\ Awaiting
    /\ DownloadStep
    /\ audioFiles' = <<>>
    /\ currentStep' = "settings"
    /\ UNCHANGED <<genPc, genI, newAudioFiles, calls, trace, genError,
                   isGenerating, currentSlide, endpointVars, settings, patchVars,
                   bandVars, restVars>>

\* line 408: without slides the component renders no wizard
WizardSlideLists == {sl \in GenSlideLists : Len(sl) > 0}

InitWizard ==
    /\ HandlerIdle
    /\ NothingMinted
    /\ other = NoHandler
    /\ ProcessorIdle
    /\ variant = "route"
    /\ apiKey = TRUE
    /\ useMicrosoftTTS = TRUE
    /\ genSlides \in WizardSlideLists
    /\ genPc = "idle"
    /\ genI = 0
    /\ newAudioFiles = <<>>
    /\ genError = NoError
    /\ calls = IdleRun.calls
    /\ currentStep = "settings"
    /\ isGenerating = FALSE
    /\ currentSlide = 0
    /\ audioFiles = <<>>
    /\ trace = <<>>
    /\ parked = IdleRun
    /\ ttsRequest = [jsonOk |-> TRUE, text |-> Undefined]
    /\ ttsPc = "idle"
    /\ outcomes = <<>>
    /\ ttsResponse = NoTtsResponse

NextWizard ==
    \/ PressGenerate
    \/ LoopStep
    \/ generateMicrosoftTTS
    \/ Pause
    \/ Return
    \/ SwitchRun
    \/ goBackToSettings
    \/ goBackToGenerate
    \/ clearAllAudio

SpecWizard == InitWizard /\ [][NextWizard]_vars

\* C26: in every reachable state of the wizard, whatever the order of the
\* user's actions and of the steps of the runs in flight, currentStep =
\* "download" implies that audioFiles is non-empty.
C26_DownloadHasAudio == currentStep = "download" => Len(audioFiles) > 0

\* C27: at most one generation run is in flight at any time, and
\* isGenerating is true exactly while a run is in flight.
C27_OneRunInFlight ==
    /\ ~(InFlight(genPc) /\ InFlight(parked.genPc))
    /\ isGenerating <=> (InFlight(genPc) \/ InFlight(parked.genPc))

-----------------------------------------------------------------------------
(* The scripts of the presentation orchestrator: slides and generatedScript *)
(* are state of PowerPointProcessor; handleScriptUpdate is a closure of one *)
(* render, so a regeneration that awaits its fetch keeps the slides of the  *)
(* render in which its button was pressed.                                  *)

MaxDoc == 2

\* the texts the script generator and the user's edits produce
DocTexts == {<<65>>, <<66>>}

DocLists ==
    UNION {{[k \in 1..n |-> Slide(k, Script(texts[k]))] : texts \in [1..n -> DocTexts]} :
           n \in 1..MaxDoc}

\* lines 1192-1194 and 1222-1224: one section per slide, headed by the
\* slide's number and title, carrying the slide's script
fullScript(list) ==
    [k \in 1..Len(list) |-> [number |-> list[k].slideNumber, text |-> list[k].script.text]]

NoFetch == [pc |-> "idle"]

Fetching(seen) == [pc |-> "fetch", seen |-> seen]

\* lines 1215-1220: slides.map over the slides of the closure's render
withScript(seen, slideNumber, newScript) ==
    [k \in 1..Len(seen) |->
        IF seen[k].slideNumber = slideNumber
        THEN Slide(seen[k].slideNumber, Script(newScript)) ELSE seen[k]]

\* lines 1208-1226: handleScriptUpdate of the render whose slides are seen
handleScriptUpdate(seen, slideNumber, newScript) ==
    /\ docSlides' = [k \in 1..Len(docSlides) |->
                        IF docSlides[k].slideNumber = slideNumber
                        THEN Slide(docSlides[k].slideNumber, Script(newScript))
                        ELSE docSlides[k]]
    /\ generatedScript' = fullScript(withScript(seen, slideNumber, newScript))

\* lines 2012-2015: the editor's save button, in the current render
saveScript ==
    /\ \E k \in 1..Len(docSlides), t \in DocTexts :
           handleScriptUpdate(docSlides, docSlides[k].slideNumber, t)
    /\ UNCHANGED <<regenerations, stage, uploadedScript, fileUpload, scriptUpload,
                   other, parked, patchVars, bandVars, ttsVars>>

\* lines 2022-2034, 2123-2124: the regenerate button of one slide's editor,
\* disabled while that editor regenerates
regenerateScript ==
    /\ \E k \in 1..Len(docSlides) :
           /\ regenerations.one[k] = NoFetch
           /\ regenerations' = [regenerations EXCEPT !.one[k] = Fetching(docSlides)]
    /\ UNCHANGED <<docSlides, generatedScript, stage, uploadedScript, fileUpload,
                   scriptUpload, other, parked, patchVars, bandVars, ttsVars>>

\* lines 2036-2052: the fetch of one slide's regeneration is settled
regenerateScript_Settled ==
    /\ \E k \in 1..Len(docSlides) :
           /\ regenerations.one[k] # NoFetch
           /\ regenerations' = [regenerations EXCEPT !.one[k] = NoFetch]
           /\ \/ \E t \in DocTexts :
                     handleScriptUpdate(regenerations.one[k].seen,
                                        docSlides[k].slideNumber, t)
              \/ UNCHANGED <<docSlides, generatedScript>>
    /\ UNCHANGED <<stage, uploadedScript, fileUpload, scriptUpload, other, parked,
                   patchVars, bandVars, ttsVars>>

\* lines 1154-1176, 1801-1802: the regenerate-all button, disabled while
\* isRegeneratingAll
regenerateAllScripts ==
    /\ regenerations.all = NoFetch
    /\ regenerations' = [regenerations EXCEPT !.all = Fetching(docSlides)]
    /\ UNCHANGED <<docSlides, generatedScript, stage, uploadedScript, fileUpload,
                   scriptUpload, other, parked, patchVars, bandVars, ttsVars>>

\* lines 1178-1205: the fetch of the regeneration of all scripts is settled
regenerateAllScripts_Settled ==
    /\ regenerations.all # NoFetch
    /\ regenerations' = [regenerations EXCEPT !.all = NoFetch]
    /\ \/ \E texts \in [1..Len(docSlides) -> DocTexts] :
              LET updatedSlides ==
                      [k \in 1..Len(regenerations.all.seen) |->
                          Slide(regenerations.all.seen[k].slideNumber, Script(texts[k]))]
              IN /\ docSlides' = updatedSlides
                 /\ generatedScript' = fullScript(updatedSlides)
       \/ UNCHANGED <<docSlides, generatedScript>>
    /\ UNCHANGED <<stage, uploadedScript, fileUpload, scriptUpload, other, parked,
                   patchVars, bandVars, ttsVars>>

\* lines 1084-1152: after generateScript the orchestrator shows the slides
\* with their scripts and the full script made from them
InitScripts ==
    /\ HandlerIdle
    /\ NothingMinted
    /\ TtsIdle
    /\ other = NoHandler
    /\ parked = NoRun
    /\ docSlides \in DocLists
    /\ generatedScript = fullScript(docSlides)
    /\ stage = "complete"
    /\ uploadedScript = <<>>
    /\ fileUpload = NoUpload
    /\ scriptUpload = NoUpload
    /\ regenerations = [all |-> NoFetch, one |-> [k \in 1..Len(docSlides) |-> NoFetch]]

NextScripts ==
    \/ saveScript
    \/ regenerateScript
    \/ regenerateScript_Settled
    \/ regenerateAllScripts
    \/ regenerateAllScripts_Settled

SpecScripts == InitScripts /\ [][NextScripts]_vars

\* C28: after any sequence of manual saves and regenerations, whatever the
\* order in which the regenerations in flight complete, generatedScript is
\* the concatenation of the current scripts of all slides.
C28_ScriptConsistent == generatedScript = fullScript(docSlides)

-----------------------------------------------------------------------------
(* The upload workflow of the presentation orchestrator (workflowMode =     *)
(* 'upload'): a presentation and a script file are uploaded, in any order.  *)
(* handleFileUpload and handleScriptUpload are closures of the render in    *)
(* which the upload started: after its await each still reads the           *)
(* uploadedScript, or the slides, of that render.  A script text is the     *)
(* sequence of its paragraphs, each of one word.                            *)

UploadTexts ==
    UNION {[1..n -> {65, 66}] : n \in 1..MaxDoc}

\* the slides /api/extract-slides returns: they carry no script
Extracted(n) == [k \in 1..n |-> Slide(k, Undefined)]

Ceil(a, b) == (a + b - 1) \div b

\* lines 1059-1093: the paragraphs when there are enough of them, else the
\* words spread evenly (a text without slide markers)
parseScriptForSlides(script, slideCount) ==
    IF Len(script) >= slideCount
    THEN [k \in 1..slideCount |-> <<script[k]>>]
    ELSE LET wordsPerSlide == Ceil(Len(script), slideCount)
         IN [k \in 1..slideCount |->
                SubSeq(script, (k - 1) * wordsPerSlide + 1,
                       Min(k * wordsPerSlide, Len(script)))]

\* line 1032: `Script voor slide ${slide.slideNumber}`
Placeholder(slideNumber) == <<0, slideNumber>>

\* lines 1006-1057: processUploadedScript(slidesToProcess, scriptText)
processUploadedScript(slidesToProcess, scriptText) ==
    LET scriptSections == parseScriptForSlides(scriptText, Len(slidesToProcess))
        updatedSlides ==
            [k \in 1..Len(slidesToProcess) |->
                Slide(slidesToProcess[k].slideNumber,
                      Script(IF scriptSections[k] # <<>> THEN scriptSections[k]
                             ELSE Placeholder(slidesToProcess[k].slideNumber)))]
    IN /\ docSlides' = updatedSlides
       /\ generatedScript' = fullScript(updatedSlides)
       /\ stage' = "complete"

\* line 1505: the drop zone and the two select buttons are rendered only
\* while status.stage is 'idle'
UploadSection == stage = "idle"

\* lines 899-917: a presentation is dropped or selected; the fetch of
\* /api/extract-slides starts
handleFileUpload ==
    /\ UploadSection
    /\ fileUpload = NoUpload
    /\ fileUpload' = [pc |-> "extract", uploadedScript |-> uploadedScript]
    /\ stage' = "extracting"
    /\ UNCHANGED <<docSlides, generatedScript, uploadedScript, scriptUpload,
                   regenerations, other, parked, patchVars, bandVars, ttsVars>>

\* lines 919-971: the extraction is settled
handleFileUpload_Settled ==
    /\ fileUpload # NoUpload
    /\ fileUpload' = NoUpload
    /\ \E n \in 0..MaxDoc :
           IF n = 0
           THEN /\ stage' = "idle"
                /\ UNCHANGED <<docSlides, generatedScript>>
           ELSE IF fileUpload.uploadedScript # <<>>
                THEN processUploadedScript(Extracted(n), fileUpload.uploadedScript)
                ELSE /\ docSlides' = Extracted(n)
                     /\ stage' = "idle"
                     /\ UNCHANGED generatedScript
    /\ UNCHANGED <<uploadedScript, scriptUpload, regenerations, other, parked,
                   patchVars, bandVars, ttsVars>>

\* lines 974-983: a script file is dropped or selected; file.text() starts
handleScriptUpload ==
    /\ UploadSection
    /\ scriptUpload = NoUpload
    /\ scriptUpload' = [pc |-> "read", slides |-> docSlides]
    /\ UNCHANGED <<docSlides, generatedScript, stage, uploadedScript, fileUpload,
                   regenerations, other, parked, patchVars, bandVars, ttsVars>>

\* lines 983-1002: the text of the script file is read, or the read fails
handleScriptUpload_Settled ==
    /\ scriptUpload # NoUpload
    /\ scriptUpload' = NoUpload
    /\ \/ \E text \in UploadTexts :
              /\ uploadedScript' = text
              /\ IF Len(scriptUpload.slides) > 0
                 THEN processUploadedScript(scriptUpload.slides, text)
                 ELSE /\ stage' = "idle"
                      /\ UNCHANGED <<docSlides, generatedScript>>
       \/ UNCHANGED <<uploadedScript, docSlides, generatedScript, stage>>
    /\ UNCHANGED <<fileUpload, regenerations, other, parked, patchVars, bandVars,
                   ttsVars>>

InitUpload ==
    /\ HandlerIdle
    /\ NothingMinted
    /\ TtsIdle
    /\ RestIdle

NextUpload ==
    \/ handleFileUpload
    \/ handleFileUpload_Settled
    \/ handleScriptUpload
    \/ handleScriptUpload_Settled

SpecUpload == InitUpload /\ [][NextUpload]_vars

Assigned == \E k \in 1..Len(docSlides) : docSlides[k].script.defined

\* C29: the uploaded script is assigned to slides only when both the
\* extracted slides and the script text are there, and once both files have
\* been uploaded, in either order, and no upload is still in flight, the
\* script has been assigned to the slides and the status is "complete": no
\* further user action is needed.
C29_BothUploadsComplete ==
    /\ Assigned => uploadedScript # <<>>
    /\ (fileUpload = NoUpload /\ scriptUpload = NoUpload
        /\ Len(docSlides) > 0 /\ uploadedScript # <<>>)
       => (stage = "complete" /\ \A k \in 1..Len(docSlides) : docSlides[k].script.defined)

-----------------------------------------------------------------------------
(* Concurrency *)

\* C21: when two patch requests are in flight and interleave at their
\* suspension points, each response is a response the same request gives
\* when run alone; no package, manifest or relationship state of one request
\* shows in the other.
C21_RequestsIsolated ==
    /\ pc = "done" => response \in AloneResponses(request)
    /\ other.pc = "done" => other.response \in AloneResponses(other.request)
    /\ \A q \in DOMAIN pptx :
           \/ q \in DOMAIN request.file
           \/ q \in {notesFileName(k) : k \in 1..Len(slides)}
           \/ q \in {slideRelsPath(k) : k \in 1..Len(slides)}

\* C21 witness: both requests were in flight together and both returned a
\* package; they patched decks of different size with different narrations.
C21_Witness ==
    /\ pc = "done"
    /\ other.pc = "done"
    /\ response.kind = "package"
    /\ other.response.kind = "package"
    /\ Len(request.slides) = 1
    /\ Len(other.request.slides) = 2
    /\ request.slides[1].script # other.request.slides[1].script
    /\ DOMAIN request.file # DOMAIN other.request.file

=============================================================================
